---- MODULE Spec2Model ----
(***************************************************************************)
(* State-machine model of the demo pages of react-conf-2025-demos.         *)
(* Every page is a set of React components; a component's state is its     *)
(* useState / useRef cells, an action is one browser task (a click, a      *)
(* timer callback) together with the render and the effects it causes.     *)
(* Each page has its own specification; the variables of the other pages   *)
(* stay at their initial values.                                           *)
(***************************************************************************)
EXTENDS Integers, Sequences, FiniteSets, TLC

VARIABLES
  \* PageVisitTrackerDemo (use-effect-event/page.tsx)
  visitMounted,   \* the component has been mounted
  url,            \* useState('/home')
  items,          \* useState cart: sequence of item ids
  logs,           \* useState analytics log: sequence of messages
  onVisit,        \* the useEffectEvent instance: [ref, fn]
  visitRenders,   \* number of renders so far (names the closures of a render)
  visitInvoked    \* the last call through the Effect Event: which callback ran, after which render

VARIABLES
  \* BeforeAfterComparison (use-effect-event/page.tsx)
  compareMounted,
  theme,              \* useState('light')
  badConnectionLogs,  \* log of the version without useEffectEvent
  connectionLogs,     \* log of the version with useEffectEvent
  onConnected,        \* the useEffectEvent instance
  compareRenders

VARIABLES
  \* NotificationDemo (use-effect-event/page.tsx)
  notifyMounted,
  notifications,          \* useState notification log
  soundEnabled,           \* useState(true)
  volume,                 \* useState(50)
  messageCount,           \* useState(0)
  playNotificationSound,  \* the useEffectEvent instance
  notifyRenders

VARIABLES
  \* ServerActionForm (server-actions/ServerActionForm.tsx), useActionState
  formState,     \* state returned by useActionState(submitFormAction, null)
  formPending,   \* isPending
  actionArgs     \* arguments of the call of submitFormAction in flight (or of the last one)

VARIABLES
  \* UseOptimisticDemo (use-optimistic/page.tsx)
  todos,            \* useState: completed flag of each todo id (committed list)
  optimisticQueue,  \* optimistic updates useOptimistic holds until the transition ends
  serverUpdates,    \* calls of updateTodoOnServer in flight, oldest first
  isPending         \* useTransition

VARIABLES
  \* ErrorHandlingDemo (error-handling/page.tsx)
  triggerError,       \* useState(false), the shouldError prop of BuggyComponent
  boundaryError,      \* ErrorBoundary state.error: 0 for null, else the Error object caught
  boundaryView,       \* what ErrorBoundary.render returned last
  errorsThrown,       \* number of Error objects BuggyComponent has thrown
  triggerAsyncError,  \* useState(false), the shouldError prop of AsyncBuggyComponent
  asyncData,          \* AsyncBuggyComponent data
  asyncError,         \* AsyncBuggyComponent error
  fetches,            \* calls of fetchData waiting for their 1 s timer, oldest first
  errorPageEvent      \* the handler that ran last on the page

VARIABLES
  \* SuspenseImprovementsDemo / React18Simulation (unnamed/part_003)
  sim18Mounted,   \* React18Simulation has been mounted
  resetKey,       \* useState(0) of SuspenseImprovementsDemo
  showFallback,   \* useState(false)
  userData,       \* useState(null): TRUE once set
  postsData,
  commentsData,
  events18,       \* useState timeline events (their labels)
  timers,         \* pending setTimeout callbacks in registration order
  interrupted     \* a Reset was clicked while timers of a run were outstanding

VARIABLES
  \* ActivityDemo, Demo 4: Suspense with Fallback (activity/page.tsx)
  dataPromise,       \* useState(null): 0 for null, else the promise fetchData returned
  dataPromises,      \* status of every promise created so far
  demo4View,         \* what Demo 4 shows under its buttons: "none", "fallback" or "list"
  dataListData,      \* the data cell of the committed DataList, "unmounted" while there is none
  retryScheduled,    \* React has a retry of the suspended boundary scheduled
  dataListAttempts,  \* renders of DataList made since the displayed promise was fulfilled
  \* ActivityDemo, Demo 2: Progress Bar (activity/page.tsx)
  progress,          \* useState(0)
  activityIsLoading, \* useState(false), isLoading in the source
  intervals,         \* setInterval timers of the mounted ActivityDemo that are alive
  leakedIntervals,   \* the timers of unmounted ActivityDemo instances that are alive
  activityPageMounted, \* the /activity page is the one displayed
  activityVisits     \* times the page was opened again

VARIABLES
  \* PartialPrerenderingDemo: StaticContent and DynamicContent sections (FEATURES.md)
  pprEntry,        \* how the page was opened: "none", "document" or "navigation"
  staticShown,     \* the StaticContent sections are displayed
  sectionView,     \* what each Suspense boundary displays
  sectionPromise,  \* the promise the retry of each boundary waits for
  sectionKept,     \* the renderer kept that promise as the thenable state of a suspended task
  sectionRenders   \* renders of each DynamicContent so far

VARIABLES
  \* InteractivePPRDemo (FEATURES.md)
  phase,        \* useState('prerender')
  isResuming,   \* useState(false)
  flowTimers,   \* pending setTimeout callbacks of handleSimulateFlow, in registration order
  flowClicks,   \* clicks on Simulate PPR Flow so far
  flowEvent     \* what ran last: "none", "click" or "timer"

VARIABLES
  \* ViewTransitionsDemo (view-transitions/page.tsx)
  vtMounted,     \* the page is open
  vtSupported,   \* document.startViewTransition exists in this browser
  selectedItem,  \* useState(null): 0 for null, else the id of the item
  view,          \* useState('grid')
  sortOrder,     \* useState('asc')
  vtPending,     \* update callbacks startViewTransition has not called yet (call numbers)
  vtUpdates,     \* the updateFn of every call of withViewTransition: the cell it sets and the value
  vtInvoked      \* how many times the updateFn of each call has been invoked

VARIABLES
  \* ActivityDemo with the Activity component (server-actions/ServerActionForm.tsx, from line 74)
  activityMounted,  \* the page is mounted
  isVisible,        \* useState(true), Demo 1
  heavy,            \* HeavyComponent of Demo 1: [mounted, count, status]
  activeTab,        \* useState('home'), Demo 2
  tabs,             \* TabContent of each tab: [mounted, data, input, timer]
  shouldRender,     \* useState of each Activity
  console,          \* lines written by console.log
  tabSwitches       \* clicks on the buttons of Demo 1 and Demo 2 so far

VARIABLES
  \* FormActionsDemo (use-optimistic/page.tsx, from line 199)
  formTodos,       \* the state of useActionState(action, []), todos in the source
  todoActions,     \* form data of the dispatched actions that have not returned, oldest first
  todoSubmitted    \* every text submitted so far, in submission order

VARIABLES
  \* Home (app/page.tsx) and the router
  pathname,    \* the path of the page displayed
  history,     \* the paths visited, oldest first
  lastCard     \* index in demos of the card clicked last, 0 before any click

VARIABLES
  \* UseHookDemo (unnamed/part_000)
  postId,        \* useState(1)
  postPromise,   \* useState(() => fetchData(1)): index in hookPromises of the promise
  hookPromises   \* every promise fetchData has returned, oldest first

VARIABLES
  \* SearchResults (unnamed/part_000)
  searchInput,     \* the text in the search box
  searches,        \* the fetchData timers outstanding, oldest first
  results,         \* useState([])
  searchIsPending, \* isPending of useTransition
  keystrokes       \* changes of the search box so far

visitVars == <<visitMounted, url, items, logs, onVisit, visitRenders, visitInvoked>>
compareVars == <<compareMounted, theme, badConnectionLogs, connectionLogs, onConnected,
                 compareRenders>>
notifyVars == <<notifications, notifyMounted, soundEnabled, volume, messageCount,
                playNotificationSound, notifyRenders>>

formVars == <<formState, formPending, actionArgs>>
optimisticVars == <<todos, optimisticQueue, serverUpdates, isPending>>
errorVars == <<triggerError, boundaryError, boundaryView, errorsThrown, triggerAsyncError,
               asyncData, asyncError, fetches, errorPageEvent>>
suspenseVars == <<sim18Mounted, resetKey, showFallback, userData, postsData, commentsData,
                  events18, timers, interrupted>>

demo4Vars == <<dataPromise, dataPromises, demo4View, dataListData, retryScheduled,
               dataListAttempts>>
progressVars == <<progress, activityIsLoading, intervals, leakedIntervals>>
activityPageVars == <<activityPageMounted, activityVisits>>
indicatorVars == <<demo4Vars, progressVars, activityPageVars>>
pprVars == <<pprEntry, staticShown, sectionView, sectionPromise, sectionKept, sectionRenders>>
flowVars == <<phase, isResuming, flowTimers, flowClicks, flowEvent>>
homeVars == <<pathname, history, lastCard>>
hookVars == <<postId, postPromise, hookPromises>>
searchVars == <<searchInput, searches, results, searchIsPending, keystrokes>>
formActionVars == <<formTodos, todoActions, todoSubmitted>>
activityVars == <<activityMounted, isVisible, heavy, activeTab, tabs, shouldRender, console,
                  tabSwitches>>
vtVars == <<vtMounted, vtSupported, selectedItem, view, sortOrder, vtPending, vtUpdates,
            vtInvoked>>

\* the pages modelled after the first seven
laterVars == <<indicatorVars, pprVars, flowVars, vtVars, activityVars, formActionVars, homeVars,
               hookVars, searchVars>>

vars == <<visitVars, compareVars, notifyVars, formVars, optimisticVars, errorVars,
          suspenseVars, laterVars>>

\* the first seven pages
earlierVars == <<visitVars, compareVars, notifyVars, formVars, optimisticVars, errorVars,
                 suspenseVars>>

\* the first seven pages and the two pages of unnamed/part_000
otherPagesVars == <<earlierVars, hookVars, searchVars>>

(***************************************************************************)
(* Bounds                                                                  *)
(***************************************************************************)
MaxVisitRenders == 6
MaxCompareRenders == 8
MaxNotifyRenders == 6
MaxMessages == 3
MaxOptimisticQueue == 4
MaxErrorsThrown == 3
MaxFetches == 2
MaxResets == 2
MaxLoads == 3
MaxDataListAttempts == 3
MaxSectionRenders == 3
MaxFlowClicks == 3
MaxViewTransitionCalls == 4
MaxTabSwitches == 3
MaxCount == 2
MaxSubmissions == 3
MaxHistory == 4
MaxActivityVisits == 2
MaxPostLoads == 4
MaxKeystrokes == 3

(***************************************************************************)
(* useEffectEvent polyfill (use-effect-event/page.tsx 8-20).               *)
(* A callback is the closure of one render: [render, <captured values>].   *)
(* A hook instance is [ref |-> callback held by ref.current,               *)
(*                     fn  |-> render that created the returned function]. *)
(***************************************************************************)

\* Render phase: useRef(callback) keeps the holder of the first render, and
\* useCallback(..., []) keeps the function created by the first render.
useEffectEvent(hook, callback, mounting) ==
  IF mounting THEN [ref |-> callback, fn |-> callback.render] ELSE hook

\* A bug: the holder is never refreshed after the first render.
KeepRefStale(hook, callback) == hook

\* The dependency-less effect `ref.current = callback`, run after every render.
KeepRefUpToDate(hook, callback) == [hook EXCEPT !.ref = callback]

\* The returned function: `ref.current(...args)`; yields the callback that runs.
Trampoline(hook) == hook.ref

(***************************************************************************)
(* PageVisitTrackerDemo (use-effect-event/page.tsx 55-158)                 *)
(***************************************************************************)
availablePages == <<"/home", "/about", "/products", "/contact">>
availableItems == <<1, 2, 3, 4>>

Range(s) == {s[i] : i \in DOMAIN s}

NoVisitHook == [ref |-> [render |-> 0, numberOfItems |-> 0], fn |-> 0]

VisitInit ==
  /\ visitMounted = FALSE
  /\ url = "/home"
  /\ items = <<1, 2>>
  /\ logs = <<>>
  /\ onVisit = NoVisitHook
  /\ visitRenders = 0
  /\ visitInvoked = [callback |-> 0, render |-> 0]

\* The callback passed to useEffectEvent by a render (lines 85-89): it closes
\* over numberOfItems = items.length of that render.
VisitCallback(r, its) == [render |-> r, numberOfItems |-> Len(its)]

\* What the callback logs when called with visitedUrl (line 86).
VisitLogMessage(callback, visitedUrl) ==
  [url |-> visitedUrl, numberOfItems |-> callback.numberOfItems]

\* A bug: the cart count is listed among the dependencies.
VisitEffectDepsWithCount(u, its) == <<u, Len(its)>>

\* The dependency array of the visit effect (line 93).
VisitEffectDeps(u, its) == <<u>>

\* One render with state (newUrl, newItems), its commit and its effects in
\* declaration order: the holder refresh of useEffectEvent, then the visit
\* effect when its dependencies changed; setLogs inside it renders once more.
VisitRender(newUrl, newItems, mounting) ==
  LET r1   == visitRenders + 1
      cb1  == VisitCallback(r1, newItems)
      h1   == KeepRefUpToDate(useEffectEvent(onVisit, cb1, mounting), cb1)
      runs == mounting \/ VisitEffectDeps(newUrl, newItems) # VisitEffectDeps(url, items)
      cb2  == VisitCallback(r1 + 1, newItems)
  IN /\ url' = newUrl
     /\ items' = newItems
     /\ IF runs
          THEN /\ logs' = Append(logs, VisitLogMessage(Trampoline(h1), newUrl))
               /\ visitInvoked' = [callback |-> Trampoline(h1).render, render |-> r1]
               /\ visitRenders' = r1 + 1
               /\ onVisit' = KeepRefUpToDate(useEffectEvent(h1, cb2, FALSE), cb2)
          ELSE /\ logs' = logs
               /\ visitInvoked' = visitInvoked
               /\ visitRenders' = r1
               /\ onVisit' = h1

VisitMount ==
  /\ ~visitMounted
  /\ visitMounted' = TRUE
  /\ VisitRender(url, items, TRUE)
  /\ UNCHANGED <<compareVars, notifyVars, formVars, optimisticVars, errorVars, suspenseVars, laterVars>>

\* onClick={() => setUrl(page)} (line 110); setting the current value bails out.
ClickPage(page) ==
  /\ visitMounted
  /\ visitRenders < MaxVisitRenders
  /\ IF page = url
       THEN UNCHANGED visitVars
       ELSE /\ VisitRender(page, items, FALSE)
            /\ UNCHANGED visitMounted
  /\ UNCHANGED <<compareVars, notifyVars, formVars, optimisticVars, errorVars, suspenseVars, laterVars>>

\* addItem (lines 71-76); the button is disabled when every item is in the cart.
addItem ==
  /\ visitMounted
  /\ visitRenders < MaxVisitRenders
  /\ Len(items) < Len(availableItems)
  /\ LET unusedItems == SelectSeq(availableItems, LAMBDA it : it \notin Range(items))
     IN /\ Len(unusedItems) > 0
        /\ VisitRender(url, Append(items, unusedItems[1]), FALSE)
  /\ UNCHANGED visitMounted
  /\ UNCHANGED <<compareVars, notifyVars, formVars, optimisticVars, errorVars, suspenseVars, laterVars>>

\* removeItem (lines 78-80), from the Remove button of a cart row.
removeItem(id) ==
  /\ visitMounted
  /\ visitRenders < MaxVisitRenders
  /\ id \in Range(items)
  /\ VisitRender(url, SelectSeq(items, LAMBDA it : it # id), FALSE)
  /\ UNCHANGED visitMounted
  /\ UNCHANGED <<compareVars, notifyVars, formVars, optimisticVars, errorVars, suspenseVars, laterVars>>

NextVisit ==
  \/ VisitMount
  \/ \E page \in Range(availablePages) : ClickPage(page)
  \/ addItem
  \/ \E id \in Range(availableItems) : removeItem(id)


(***************************************************************************)
(* BeforeAfterComparison (use-effect-event/page.tsx 161-267)               *)
(***************************************************************************)
Themes == {"light", "dark"}

NoCompareHook == [ref |-> [render |-> 0, theme |-> "light"], fn |-> 0]

CompareInit ==
  /\ compareMounted = FALSE
  /\ theme = "light"
  /\ badConnectionLogs = <<>>
  /\ connectionLogs = <<>>
  /\ onConnected = NoCompareHook
  /\ compareRenders = 0

\* The callback passed to useEffectEvent (lines 181-185), closing over theme.
ConnectedCallback(r, t) == [render |-> r, theme |-> t]

\* Log entries: `Connected to chat (theme: t)` and `Disconnected from chat`.
ConnectedLog(t) == <<"Connected", t>>
DisconnectLog == <<"Disconnected">>

\* Dependency array of the effect without useEffectEvent (line 178).
BadEffectDeps(t) == <<t>>

\* A bug: the effect that uses the Effect Event still depends on theme.
GoodEffectDepsWithTheme(t) == <<t>>

\* Dependency array of the effect with useEffectEvent (line 195).
GoodEffectDeps(t) == <<>>

\* One render with theme newTheme, its commit and effects: cleanups of the
\* effects whose dependencies changed, then the effects in declaration order
\* (bad effect, holder refresh, good effect); the log updates render once more.
CompareRender(newTheme, mounting) ==
  LET r1      == compareRenders + 1
      cb1     == ConnectedCallback(r1, newTheme)
      h1      == KeepRefUpToDate(useEffectEvent(onConnected, cb1, mounting), cb1)
      badRuns == mounting \/ BadEffectDeps(newTheme) # BadEffectDeps(theme)
      goodRuns == mounting \/ GoodEffectDeps(newTheme) # GoodEffectDeps(theme)
      badClean == IF badRuns /\ ~mounting
                    THEN Append(badConnectionLogs, DisconnectLog)
                    ELSE badConnectionLogs
      goodClean == IF goodRuns /\ ~mounting
                     THEN Append(connectionLogs, DisconnectLog)
                     ELSE connectionLogs
      cb2     == ConnectedCallback(r1 + 1, newTheme)
  IN /\ theme' = newTheme
     /\ badConnectionLogs' =
          IF badRuns THEN Append(badClean, ConnectedLog(newTheme)) ELSE badClean
     /\ connectionLogs' =
          IF goodRuns THEN Append(goodClean, ConnectedLog(Trampoline(h1).theme))
                      ELSE goodClean
     /\ IF badRuns \/ goodRuns
          THEN /\ compareRenders' = r1 + 1
               /\ onConnected' = KeepRefUpToDate(useEffectEvent(h1, cb2, FALSE), cb2)
          ELSE /\ compareRenders' = r1
               /\ onConnected' = h1

CompareMount ==
  /\ ~compareMounted
  /\ compareMounted' = TRUE
  /\ CompareRender(theme, TRUE)
  /\ UNCHANGED <<visitVars, notifyVars, formVars, optimisticVars, errorVars, suspenseVars, laterVars>>

\* onClick={() => setTheme(t)} (lines 210, 220); the current value bails out.
SelectTheme(t) ==
  /\ compareMounted
  /\ compareRenders < MaxCompareRenders
  /\ IF t = theme
       THEN UNCHANGED compareVars
       ELSE /\ CompareRender(t, FALSE)
            /\ UNCHANGED compareMounted
  /\ UNCHANGED <<visitVars, notifyVars, formVars, optimisticVars, errorVars, suspenseVars, laterVars>>

(***************************************************************************)
(* NotificationDemo (use-effect-event/page.tsx 270-368)                    *)
(***************************************************************************)
VolumeChoices == {0, 50, 100}

NoNotifyHook == [ref |-> [render |-> 0, soundEnabled |-> TRUE, volume |-> 50], fn |-> 0]

NotifyInit ==
  /\ notifyMounted = FALSE
  /\ notifications = <<>>
  /\ soundEnabled = TRUE
  /\ volume = 50
  /\ messageCount = 0
  /\ playNotificationSound = NoNotifyHook
  /\ notifyRenders = 0

\* The callback passed to useEffectEvent (lines 276-286).
SoundCallback(r, enabled, vol) == [render |-> r, soundEnabled |-> enabled, volume |-> vol]

\* What the callback appends when it runs (lines 277-285).
SoundLog(callback) ==
  IF callback.soundEnabled THEN <<"sound", callback.volume>> ELSE <<"silent">>

\* `New message received! (Message #n)` (line 291).
MessageLog(n) == <<"message", n>>

\* A bug: the sound settings are listed among the dependencies.
NotifyEffectDepsWithSettings(count, enabled, vol) == <<count, enabled, vol>>

\* Dependency array of the message effect (line 295).
NotifyEffectDeps(count, enabled, vol) == <<count>>

\* One render, its commit and effects: holder refresh, then the message
\* effect (lines 288-295) when messageCount changed.
NotifyRender(newCount, newEnabled, newVolume, mounting) ==
  LET r1   == notifyRenders + 1
      cb1  == SoundCallback(r1, newEnabled, newVolume)
      h1   == KeepRefUpToDate(useEffectEvent(playNotificationSound, cb1, mounting), cb1)
      runs == mounting \/ NotifyEffectDeps(newCount, newEnabled, newVolume)
                            # NotifyEffectDeps(messageCount, soundEnabled, volume)
      logsNow == runs /\ newCount # 0
      cb2  == SoundCallback(r1 + 1, newEnabled, newVolume)
  IN /\ messageCount' = newCount
     /\ soundEnabled' = newEnabled
     /\ volume' = newVolume
     /\ IF logsNow
          THEN /\ notifications' =
                    Append(Append(notifications, MessageLog(newCount)), SoundLog(Trampoline(h1)))
               /\ notifyRenders' = r1 + 1
               /\ playNotificationSound' = KeepRefUpToDate(useEffectEvent(h1, cb2, FALSE), cb2)
          ELSE /\ notifications' = notifications
               /\ notifyRenders' = r1
               /\ playNotificationSound' = h1

NotifyMount ==
  /\ ~notifyMounted
  /\ notifyMounted' = TRUE
  /\ NotifyRender(messageCount, soundEnabled, volume, TRUE)
  /\ UNCHANGED <<visitVars, compareVars, formVars, optimisticVars, errorVars, suspenseVars, laterVars>>

\* onClick={() => setMessageCount(messageCount + 1)} (line 336).
ReceiveNewMessage ==
  /\ notifyMounted
  /\ messageCount < MaxMessages
  /\ NotifyRender(messageCount + 1, soundEnabled, volume, FALSE)
  /\ UNCHANGED <<notifyMounted, visitVars, compareVars, formVars, optimisticVars, errorVars, suspenseVars, laterVars>>

\* onChange={(e) => setSoundEnabled(e.target.checked)} (line 313).
ToggleSound ==
  /\ notifyMounted
  /\ notifyRenders < MaxNotifyRenders
  /\ NotifyRender(messageCount, ~soundEnabled, volume, FALSE)
  /\ UNCHANGED <<notifyMounted, visitVars, compareVars, formVars, optimisticVars, errorVars, suspenseVars, laterVars>>

\* onChange={(e) => setVolume(Number(e.target.value))} (line 327).
SetVolume(v) ==
  /\ notifyMounted
  /\ notifyRenders < MaxNotifyRenders
  /\ v # volume
  /\ NotifyRender(messageCount, soundEnabled, v, FALSE)
  /\ UNCHANGED <<notifyMounted, visitVars, compareVars, formVars, optimisticVars, errorVars, suspenseVars, laterVars>>

NextChat ==
  \/ CompareMount
  \/ \E t \in Themes : SelectTheme(t)
  \/ NotifyMount
  \/ ReceiveNewMessage
  \/ ToggleSound
  \/ \E v \in VolumeChoices : SetVolume(v)


(***************************************************************************)
(* submitFormAction (server-actions/actions.ts) and ServerActionForm       *)
(* A string is a sequence of characters; a FormData is a function from the *)
(* field names it holds to strings (get of an absent field is null).       *)
(***************************************************************************)
FormFields == {"name", "email", "message"}
FieldTexts == {<<>>, <<"a">>, <<"a", "@", "b">>}
FormDatas == UNION {[present -> FieldTexts] : present \in SUBSET FormFields}

NullState == [null |-> TRUE]

\* `!formData.get(field)`: null (absent) and '' are falsy.
Falsy(formData, field) == field \notin DOMAIN formData \/ formData[field] = <<>>

\* String.prototype.includes for one character.
includes(text, ch) == \E i \in DOMAIN text : text[i] = ch

\* The success message template (actions.ts 29).
ThanksMessage(name, email) ==
  <<"Thanks ", name, "! We received your message and will contact you at ", email, " soon.">>

\* A bug: the email format is tested before the presence of the fields.
submitFormActionEmailFirst(prevState, formData) ==
  IF "email" \in DOMAIN formData /\ ~includes(formData["email"], "@")
    THEN [error |-> "Please enter a valid email address", success |-> FALSE]
  ELSE IF Falsy(formData, "name") \/ Falsy(formData, "email") \/ Falsy(formData, "message")
    THEN [error |-> "Please fill in all fields", success |-> FALSE]
  ELSE [success |-> TRUE, message |-> ThanksMessage(formData["name"], formData["email"])]

\* submitFormAction (actions.ts 3-31), the value it resolves to.
submitFormAction(prevState, formData) ==
  IF Falsy(formData, "name") \/ Falsy(formData, "email") \/ Falsy(formData, "message")
    THEN [error |-> "Please fill in all fields", success |-> FALSE]
  ELSE IF ~includes(formData["email"], "@")
    THEN [error |-> "Please enter a valid email address", success |-> FALSE]
  ELSE [success |-> TRUE, message |-> ThanksMessage(formData["name"], formData["email"])]

FormInit ==
  /\ formState = NullState
  /\ formPending = FALSE
  /\ actionArgs = [prevState |-> NullState, formData |-> <<>>]

\* The form is submitted (form action={formAction}); the submit button is
\* disabled while isPending (ServerActionForm.tsx 54).
SubmitForm(formData) ==
  /\ ~formPending
  /\ formPending' = TRUE
  /\ actionArgs' = [prevState |-> formState, formData |-> formData]
  /\ formState' = formState
  /\ UNCHANGED <<visitVars, compareVars, notifyVars, optimisticVars, errorVars, suspenseVars, laterVars>>

\* The action resolves after its 1 s delay; useActionState stores the result.
FormActionResolves ==
  /\ formPending
  /\ formState' = submitFormAction(actionArgs.prevState, actionArgs.formData)
  /\ formPending' = FALSE
  /\ actionArgs' = actionArgs
  /\ UNCHANGED <<visitVars, compareVars, notifyVars, optimisticVars, errorVars, suspenseVars, laterVars>>

NextForm ==
  \/ \E formData \in FormDatas : SubmitForm(formData)
  \/ FormActionResolves


(***************************************************************************)
(* UseOptimisticDemo (use-optimistic/page.tsx 17-57)                       *)
(* All optimistic updates and transitions of the component belong to one   *)
(* async action scope: React shows the optimistic updates on top of the    *)
(* committed state while any action of the scope is running, and reverts   *)
(* them, together with isPending, when the last one has finished.          *)
(***************************************************************************)
TodoIds == {1, 2, 3}

OptimisticInit ==
  /\ todos = [id \in TodoIds |-> FALSE]
  /\ optimisticQueue = <<>>
  /\ serverUpdates = <<>>
  /\ isPending = FALSE

\* The reducer passed to useOptimistic (lines 26-32).
OptimisticReducer(state, optimisticValue) ==
  [id \in DOMAIN state |->
     IF id = optimisticValue.id THEN optimisticValue.completed ELSE state[id]]

RECURSIVE ApplyOptimistic(_, _)
ApplyOptimistic(state, queue) ==
  IF queue = <<>> THEN state
  ELSE ApplyOptimistic(OptimisticReducer(state, Head(queue)), Tail(queue))

\* optimisticTodos (line 24): the committed list with the held updates applied.
optimisticTodos == ApplyOptimistic(todos, optimisticQueue)

\* A bug: the optimistic value repeats the committed flag instead of negating it.
toggleTodoSameFlag(id) ==
  /\ Len(optimisticQueue) < MaxOptimisticQueue
  /\ optimisticQueue' = Append(optimisticQueue, [id |-> id, completed |-> todos[id]])
  /\ isPending' = TRUE
  /\ serverUpdates' = Append(serverUpdates, id)
  /\ todos' = todos
  /\ UNCHANGED <<visitVars, compareVars, notifyVars, formVars, errorVars, suspenseVars, laterVars>>

\* A bug: the server update is not run inside startTransition.
toggleTodoNoTransition(id) ==
  /\ Len(optimisticQueue) < MaxOptimisticQueue
  /\ optimisticQueue' = Append(optimisticQueue, [id |-> id, completed |-> ~todos[id]])
  /\ isPending' = isPending
  /\ serverUpdates' = Append(serverUpdates, id)
  /\ todos' = todos
  /\ UNCHANGED <<visitVars, compareVars, notifyVars, formVars, errorVars, suspenseVars, laterVars>>

\* toggleTodo (lines 37-57) up to the await: the optimistic update from the
\* committed flag, then startTransition with the call of updateTodoOnServer.
toggleTodo(id) ==
  /\ Len(optimisticQueue) < MaxOptimisticQueue
  /\ optimisticQueue' = Append(optimisticQueue, [id |-> id, completed |-> ~todos[id]])
  /\ isPending' = TRUE
  /\ serverUpdates' = Append(serverUpdates, id)
  /\ todos' = todos
  /\ UNCHANGED <<visitVars, compareVars, notifyVars, formVars, errorVars, suspenseVars, laterVars>>

\* The oldest call of updateTodoOnServer resolves after its 2 s (lines 13-15)
\* and toggleTodo continues (lines 48-51): setTodos flips the committed flag.
\* When no action is left the transition ends.
ServerUpdateResolves ==
  /\ serverUpdates # <<>>
  /\ LET id == Head(serverUpdates)
         rest == Tail(serverUpdates)
     IN /\ todos' = [todos EXCEPT ![id] = ~todos[id]]
        /\ serverUpdates' = rest
        /\ isPending' = (rest # <<>>)
        /\ optimisticQueue' = IF rest = <<>> THEN <<>> ELSE optimisticQueue
  /\ UNCHANGED <<visitVars, compareVars, notifyVars, formVars, errorVars, suspenseVars, laterVars>>

NextOptimistic ==
  \/ \E id \in TodoIds : toggleTodo(id)
  \/ ServerUpdateResolves


(***************************************************************************)
(* ErrorHandlingDemo (error-handling/page.tsx): ErrorBoundary,             *)
(* BuggyComponent, AsyncBuggyComponent                                     *)
(***************************************************************************)
OtherPagesUnchanged ==
  UNCHANGED <<visitVars, compareVars, notifyVars, formVars, optimisticVars, suspenseVars, laterVars>>

ChildrenView == [shows |-> "children", error |-> 0]
FallbackView(error) == [shows |-> "fallback", error |-> error]

ErrorInit ==
  /\ triggerError = FALSE
  /\ boundaryError = 0
  /\ boundaryView = ChildrenView
  /\ errorsThrown = 0
  /\ triggerAsyncError = FALSE
  /\ asyncData = "null"
  /\ asyncError = "null"
  /\ fetches = <<>>
  /\ errorPageEvent = "mount"

\* BuggyComponent (lines 34-44): whether rendering it throws.
BuggyComponent(shouldError) == shouldError

\* A bug: the boundary forgets its error when the child would render again.
ErrorBoundaryRenderForgetful(error, shouldError, thrown) ==
  IF BuggyComponent(shouldError)
    THEN [error |-> thrown + 1, thrown |-> thrown + 1, view |-> FallbackView(thrown + 1)]
    ELSE [error |-> 0, thrown |-> thrown, view |-> ChildrenView]

\* ErrorBoundary.render with getDerivedStateFromError (lines 16-30): with an
\* error stored the fallback is returned and the children are not rendered;
\* otherwise the children are rendered, and an Error thrown by them is stored
\* and the boundary renders again.
ErrorBoundaryRender(error, shouldError, thrown) ==
  IF error # 0
    THEN [error |-> error, thrown |-> thrown, view |-> FallbackView(error)]
  ELSE IF BuggyComponent(shouldError)
    THEN [error |-> thrown + 1, thrown |-> thrown + 1, view |-> FallbackView(thrown + 1)]
  ELSE [error |-> 0, thrown |-> thrown, view |-> ChildrenView]

\* Render of Demo 1 with the given boundary error and triggerError.
RenderDemo1(error, newTrigger) ==
  LET out == ErrorBoundaryRender(error, newTrigger, errorsThrown)
  IN /\ triggerError' = newTrigger
     /\ boundaryError' = out.error
     /\ errorsThrown' = out.thrown
     /\ boundaryView' = out.view

\* onClick={() => setTriggerError(!triggerError)} (line 120).
ClickBreakOrFix ==
  /\ errorsThrown < MaxErrorsThrown
  /\ RenderDemo1(boundaryError, ~triggerError)
  /\ errorPageEvent' = "toggle"
  /\ UNCHANGED <<triggerAsyncError, asyncData, asyncError, fetches>>
  /\ OtherPagesUnchanged

\* A mutant: the handler calls reset() only and leaves triggerError.
ClickResetOnly ==
  /\ boundaryView.shows = "fallback"
  /\ RenderDemo1(0, triggerError)
  /\ errorPageEvent' = "reset"
  /\ UNCHANGED <<triggerAsyncError, asyncData, asyncError, fetches>>
  /\ OtherPagesUnchanged

\* onClick={() => { reset(); setTriggerError(false); }} (line 134), a button
\* of the fallback; reset is () => this.setState({ error: null }) (line 26).
ClickResetAndTryAgain ==
  /\ boundaryView.shows = "fallback"
  /\ RenderDemo1(0, FALSE)
  /\ errorPageEvent' = "reset"
  /\ UNCHANGED <<triggerAsyncError, asyncData, asyncError, fetches>>
  /\ OtherPagesUnchanged

\* onChange={(e) => setTriggerAsyncError(e.target.checked)} (line 152).
ToggleSimulateApiError ==
  /\ triggerAsyncError' = ~triggerAsyncError
  /\ errorPageEvent' = "check"
  /\ UNCHANGED <<triggerError, boundaryError, boundaryView, errorsThrown,
                 asyncData, asyncError, fetches>>
  /\ OtherPagesUnchanged

\* The button label of AsyncBuggyComponent (line 72).
FetchLabel(shouldError) == IF shouldError THEN "(Will Fail)" ELSE "(Will Succeed)"

\* fetchData up to its await (lines 51-62): setError(null) and the timer; the
\* timer callback closes over the shouldError prop of the render of the click.
fetchData ==
  /\ Len(fetches) < MaxFetches
  /\ asyncError' = "null"
  /\ fetches' = Append(fetches, [shouldError |-> triggerAsyncError,
                                 label |-> FetchLabel(triggerAsyncError)])
  /\ errorPageEvent' = "fetch"
  /\ UNCHANGED <<triggerError, boundaryError, boundaryView, errorsThrown,
                 triggerAsyncError, asyncData>>
  /\ OtherPagesUnchanged

\* A bug: the timer callback reads the current prop instead of its closure.
FetchRejectsCurrentProp(fetch, currentShouldError) == currentShouldError

\* The test of the timer callback (line 56): reject or resolve.
FetchRejects(fetch, currentShouldError) == fetch.shouldError

\* The oldest 1 s timer fires and fetchData continues (lines 56-66).
FetchSettles ==
  /\ fetches # <<>>
  /\ IF FetchRejects(Head(fetches), triggerAsyncError)
       THEN /\ asyncError' = "Failed to fetch data from server"
            /\ asyncData' = asyncData
       ELSE /\ asyncData' = "Data loaded successfully!"
            /\ asyncError' = asyncError
  /\ fetches' = Tail(fetches)
  /\ errorPageEvent' = "settle"
  /\ UNCHANGED <<triggerError, boundaryError, boundaryView, errorsThrown, triggerAsyncError>>
  /\ OtherPagesUnchanged

NextError ==
  \/ ClickBreakOrFix
  \/ ClickResetAndTryAgain
  \/ ToggleSimulateApiError
  \/ fetchData
  \/ FetchSettles


(***************************************************************************)
(* React18Simulation (unnamed/part_003 353-502) with the fetch utilities   *)
(* (188-222) and handleReset of SuspenseImprovementsDemo (612-617).        *)
(* A timer is [kind, run, remaining]: the callback, the resetKey of the    *)
(* effect run that registered it, and the milliseconds left. Timers fire   *)
(* in the order of their deadlines, and in registration order when the     *)
(* deadlines are equal.                                                    *)
(***************************************************************************)
FallbackDelay == 800
UserDelay == 1000
PostsDelay == 2000
CommentsDelay == 3000

\* Time advances in steps that divide every delay.
TickMs == FallbackDelay \div 4

SuspenseInit ==
  /\ sim18Mounted = FALSE
  /\ resetKey = 0
  /\ showFallback = FALSE
  /\ userData = FALSE
  /\ postsData = FALSE
  /\ commentsData = FALSE
  /\ events18 = <<>>
  /\ timers = <<>>
  /\ interrupted = FALSE

OtherThanSuspense ==
  UNCHANGED <<visitVars, compareVars, notifyVars, formVars, optimisticVars, errorVars, laterVars>>

Timer(kind, run, delay) == [kind |-> kind, run |-> run, remaining |-> delay]

\* The timers one run of the effect registers (lines 374-424), in order:
\* the fallback timer, then fetchUserProfile, fetchPosts, fetchComments.
EffectTimers(run) ==
  << Timer("fallback", run, FallbackDelay),
     Timer("user", run, UserDelay),
     Timer("posts", run, PostsDelay),
     Timer("comments", run, CommentsDelay) >>

\* The fetch-start events the effect sets (lines 385-389).
FetchStartEvents == <<"User fetch starts", "Posts fetch starts", "Comments fetch starts">>

\* The body of the effect (lines 361-424): reset the state, register the timers.
RunEffect18(run, keptTimers) ==
  /\ showFallback' = FALSE
  /\ userData' = FALSE
  /\ postsData' = FALSE
  /\ commentsData' = FALSE
  /\ events18' = FetchStartEvents
  /\ timers' = keptTimers \o EffectTimers(run)

Mount18 ==
  /\ ~sim18Mounted
  /\ sim18Mounted' = TRUE
  /\ RunEffect18(resetKey, timers)
  /\ UNCHANGED <<resetKey, interrupted>>
  /\ OtherThanSuspense

\* handleReset (lines 615-617): resetKey + 1 renders React18Simulation again;
\* the cleanup of the previous effect clears its fallback timer (line 426) and
\* the effect runs again. The fetch timers of the previous run stay.
handleReset ==
  /\ sim18Mounted
  /\ resetKey < MaxResets
  /\ resetKey' = resetKey + 1
  /\ RunEffect18(resetKey + 1,
                 SelectSeq(timers, LAMBDA t : ~(t.kind = "fallback" /\ t.run = resetKey)))
  /\ interrupted' = (interrupted \/ timers # <<>>)
  /\ UNCHANGED sim18Mounted
  /\ OtherThanSuspense

\* Time passes while no timer is due.
Tick ==
  /\ timers # <<>>
  /\ \A i \in DOMAIN timers : timers[i].remaining > 0
  /\ timers' = [i \in DOMAIN timers |->
                  [timers[i] EXCEPT !.remaining = timers[i].remaining - TickMs]]
  /\ UNCHANGED <<sim18Mounted, resetKey, showFallback, userData, postsData, commentsData,
                 events18, interrupted>>
  /\ OtherThanSuspense

\* The first due timer, 0 when none is due.
DueTimer ==
  IF \E i \in DOMAIN timers : timers[i].remaining = 0
    THEN CHOOSE i \in DOMAIN timers :
           /\ timers[i].remaining = 0
           /\ \A j \in DOMAIN timers : timers[j].remaining = 0 => i <= j
    ELSE 0

RemoveAt(seq, i) == SubSeq(seq, 1, i - 1) \o SubSeq(seq, i + 1, Len(seq))

\* The callback of the fallback timer (lines 374-382).
FallbackTimerFires ==
  /\ DueTimer # 0
  /\ timers[DueTimer].kind = "fallback"
  /\ showFallback' = TRUE
  /\ events18' = Append(events18, "Fallback shown (delayed)")
  /\ timers' = RemoveAt(timers, DueTimer)
  /\ UNCHANGED <<sim18Mounted, resetKey, userData, postsData, commentsData, interrupted>>
  /\ OtherThanSuspense

\* fetchUserProfile resolves and its then callback runs (lines 392-401).
UserLoaded ==
  /\ DueTimer # 0
  /\ timers[DueTimer].kind = "user"
  /\ userData' = TRUE
  /\ events18' = Append(events18, "User loaded")
  /\ timers' = RemoveAt(timers, DueTimer)
  /\ UNCHANGED <<sim18Mounted, resetKey, showFallback, postsData, commentsData, interrupted>>
  /\ OtherThanSuspense

\* fetchPosts resolves and its then callback runs (lines 403-412).
PostsLoaded ==
  /\ DueTimer # 0
  /\ timers[DueTimer].kind = "posts"
  /\ postsData' = TRUE
  /\ events18' = Append(events18, "Posts loaded")
  /\ timers' = RemoveAt(timers, DueTimer)
  /\ UNCHANGED <<sim18Mounted, resetKey, showFallback, userData, commentsData, interrupted>>
  /\ OtherThanSuspense

\* fetchComments resolves and its then callback runs (lines 414-424).
CommentsLoaded ==
  /\ DueTimer # 0
  /\ timers[DueTimer].kind = "comments"
  /\ commentsData' = TRUE
  /\ events18' = Append(events18, "Comments loaded")
  /\ showFallback' = FALSE
  /\ timers' = RemoveAt(timers, DueTimer)
  /\ UNCHANGED <<sim18Mounted, resetKey, userData, postsData, interrupted>>
  /\ OtherThanSuspense

\* A bug: only the user data is awaited.
isLoadingUserOnly == ~userData

\* isLoading (line 429).
isLoading == ~userData \/ ~postsData \/ ~commentsData

\* The branch the panel renders (lines 435-497).
Panel18 ==
  IF ~showFallback /\ isLoading THEN "blank"
  ELSE IF showFallback /\ isLoading THEN "spinner"
  ELSE "content"

NextSuspense ==
  \/ Mount18
  \/ handleReset
  \/ Tick
  \/ FallbackTimerFires
  \/ UserLoaded
  \/ PostsLoaded
  \/ CommentsLoaded

(***************************************************************************)
(* ActivityDemo, Demo 4 (activity/page.tsx): fetchData, DataList,          *)
(* loadDataWithSuspense, resetSuspense.                                    *)
(* DataList keeps the resolved items in a useState cell and throws the     *)
(* promise while the cell is null. A component that suspends before it was *)
(* ever committed has its fiber, and with it the cell, thrown away: the    *)
(* setData registered by that render writes to the discarded fiber, and    *)
(* the retry mounts DataList again with the initial state.                 *)
(***************************************************************************)
ActivityFetchDelay == 2000

Demo4Init ==
  /\ dataPromise = 0
  /\ dataPromises = <<>>
  /\ demo4View = "none"
  /\ dataListData = "unmounted"
  /\ retryScheduled = FALSE
  /\ dataListAttempts = 0

\* fetchData(): a new promise, pending until its timer fires
activityFetchData(promises) == Append(promises, "pending")

\* The value useState(null) gives a render of DataList: the committed cell,
\* or the initial null when no DataList was ever committed.
DataListCell(committed) == IF committed = "unmounted" THEN "null" ELSE committed

\* DataList: throws the promise while data is null, else renders the items.
DataList(data) == IF data = "null" THEN "throws" ELSE "renders"

\* promise.then(setData) on fulfilment: a committed DataList gets the five
\* items ("items"),
\* a fiber that was never committed is gone and nothing is stored.
setData(committed, value) == IF committed = "unmounted" THEN committed ELSE value

\* The <Suspense> of Demo 4 with DataList as its child.
Demo4Render(promise, committed) ==
  IF promise = 0 THEN "none"
  ELSE IF DataList(DataListCell(committed)) = "throws" THEN "fallback" ELSE "list"

loadDataWithSuspense ==
  /\ activityPageMounted
  /\ dataPromise = 0
  /\ Len(dataPromises) < MaxLoads
  /\ dataPromises' = activityFetchData(dataPromises)
  /\ dataPromise' = Len(dataPromises')
  /\ demo4View' = Demo4Render(dataPromise', dataListData)
  /\ dataListData' = IF demo4View' = "list" THEN DataListCell(dataListData) ELSE "unmounted"
  /\ retryScheduled' = FALSE
  /\ dataListAttempts' = 0
  /\ UNCHANGED <<progressVars, activityPageVars, pprVars, flowVars, vtVars, activityVars, formActionVars, homeVars, otherPagesVars>>

resetSuspense ==
  /\ activityPageMounted
  /\ dataPromise # 0
  /\ dataPromise' = 0
  /\ demo4View' = Demo4Render(0, dataListData)
  /\ dataListData' = "unmounted"
  /\ retryScheduled' = FALSE
  /\ dataListAttempts' = 0
  /\ UNCHANGED <<dataPromises, progressVars, activityPageVars, pprVars, flowVars, vtVars, activityVars, formActionVars, homeVars, otherPagesVars>>

\* The 2 s timer of the oldest pending promise fires: the promise is
\* fulfilled, its then-callbacks run (setData of every render that threw it,
\* then the retry React attached when it committed the fallback).
DataPromiseResolves ==
  \E p \in DOMAIN dataPromises :
    /\ dataPromises[p] = "pending"
    /\ \A q \in DOMAIN dataPromises : q < p => dataPromises[q] = "fulfilled"
    /\ dataPromises' = [dataPromises EXCEPT ![p] = "fulfilled"]
    /\ dataListData' = IF dataPromise = p THEN setData(dataListData, "items") ELSE dataListData
    /\ retryScheduled' = (dataPromise = p)
    /\ UNCHANGED <<dataPromise, demo4View, dataListAttempts, progressVars, activityPageVars, pprVars, flowVars, vtVars, activityVars, formActionVars, homeVars, otherPagesVars>>

\* React renders the suspended boundary again. A render that throws the
\* fulfilled promise registers setData and the retry on it once more, and
\* both run in the next microtask.
RetryDataList ==
  /\ retryScheduled
  /\ dataPromise # 0
  /\ dataListAttempts < MaxDataListAttempts
  /\ dataListAttempts' = dataListAttempts + 1
  /\ demo4View' = Demo4Render(dataPromise, dataListData)
  /\ dataListData' = IF demo4View' = "list" THEN DataListCell(dataListData)
                     ELSE setData("unmounted", "items")
  /\ retryScheduled' = (demo4View' = "fallback")
  /\ UNCHANGED <<dataPromise, dataPromises, progressVars, activityPageVars, pprVars, flowVars, vtVars, activityVars, formActionVars, homeVars, otherPagesVars>>

\* Demo 2: the progress bar driven by setInterval (lines 170-184).
ProgressInit ==
  /\ progress = 0
  /\ activityIsLoading = FALSE
  /\ intervals = 0
  /\ leakedIntervals = <<>>
  /\ activityPageMounted = TRUE
  /\ activityVisits = 0

\* The Start Progress button is disabled while isLoading (line 315).
simulateProgress ==
  /\ activityPageMounted
  /\ ~activityIsLoading
  /\ progress' = 0
  /\ activityIsLoading' = TRUE
  /\ intervals' = intervals + 1
  /\ UNCHANGED leakedIntervals
  /\ UNCHANGED <<demo4Vars, activityPageVars, pprVars, flowVars, vtVars, activityVars, formActionVars, homeVars, otherPagesVars>>

\* The updater of lines 175-182, as the interval callback hands it to
\* setProgress.
ProgressUpdater(prev) ==
  IF prev >= 100 THEN [state |-> 100, clearsInterval |-> TRUE]
  ELSE [state |-> prev + 10, clearsInterval |-> FALSE]

\* One tick of the interval, 300 ms after the previous one: the updater
\* passed to setProgress, with the clearInterval and setIsLoading(false) it
\* makes once prev has reached 100.
ProgressIntervalTick ==
  /\ intervals > 0
  /\ progress' = ProgressUpdater(progress).state
  /\ IF ProgressUpdater(progress).clearsInterval
       THEN /\ intervals' = intervals - 1
            /\ activityIsLoading' = FALSE
       ELSE UNCHANGED <<intervals, activityIsLoading>>
  /\ UNCHANGED leakedIntervals
  /\ UNCHANGED <<demo4Vars, activityPageVars, pprVars, flowVars, vtVars, activityVars, formActionVars, homeVars, otherPagesVars>>

\* 'Back to Home' (line 237), or any other navigation away: ActivityDemo is
\* unmounted and its state is gone. Nothing clears the interval of a run
\* that is under way (simulateProgress registers no cleanup): it stays
\* alive, bound to the setProgress of the unmounted component, whose last
\* rendered progress is the only value its updater will ever be given.
LeaveActivityPage ==
  /\ activityPageMounted
  /\ activityPageMounted' = FALSE
  /\ leakedIntervals' =
       IF intervals > 0
         THEN Append(leakedIntervals, [prev |-> progress, queued |-> FALSE])
         ELSE leakedIntervals
  /\ progress' = 0
  /\ activityIsLoading' = FALSE
  /\ intervals' = 0
  /\ dataPromise' = 0
  /\ demo4View' = "none"
  /\ dataListData' = "unmounted"
  /\ retryScheduled' = FALSE
  /\ dataListAttempts' = 0
  /\ UNCHANGED <<dataPromises, activityVisits, pprVars, flowVars, vtVars, activityVars, formActionVars, homeVars, otherPagesVars>>

\* The Activity card of the home page: a new ActivityDemo is mounted.
OpenActivityPage ==
  /\ ~activityPageMounted
  /\ activityVisits < MaxActivityVisits
  /\ activityVisits' = activityVisits + 1
  /\ activityPageMounted' = TRUE
  /\ UNCHANGED <<demo4Vars, progressVars, pprVars, flowVars, vtVars, activityVars, formActionVars, homeVars, otherPagesVars>>

\* The first tick of an interval whose component is unmounted: the update
\* queue is empty, so setProgress computes the updater at once on the last
\* rendered progress. Only if that was already 100 does the updater clear
\* the interval; otherwise the update is queued on a fiber that is never
\* rendered again, and no later tick runs the updater or changes anything.
LeakedIntervalTick ==
  \E i \in DOMAIN leakedIntervals :
    /\ ~leakedIntervals[i].queued
    /\ leakedIntervals' =
         IF ProgressUpdater(leakedIntervals[i].prev).clearsInterval
           THEN RemoveAt(leakedIntervals, i)
           ELSE [leakedIntervals EXCEPT ![i].queued = TRUE]
    /\ UNCHANGED <<progress, activityIsLoading, intervals, demo4Vars, activityPageVars, pprVars, flowVars, vtVars, activityVars, formActionVars, homeVars, otherPagesVars>>

\* Demo 2 alone, with the navigation that mounts and unmounts it.
NextProgressBar ==
  \/ LeaveActivityPage
  \/ OpenActivityPage
  \/ LeakedIntervalTick
  \/ simulateProgress
  \/ ProgressIntervalTick

NextActivityIndicators ==
  \/ LeaveActivityPage
  \/ OpenActivityPage
  \/ LeakedIntervalTick
  \/ loadDataWithSuspense
  \/ resetSuspense
  \/ DataPromiseResolves
  \/ RetryDataList
  \/ simulateProgress
  \/ ProgressIntervalTick

(***************************************************************************)
(* PartialPrerenderingDemo (FEATURES.md, from line 712): fetchData,        *)
(* DynamicContent, StaticContent, BasicPPRDemo, MultipleDynamicDemo.       *)
(* DynamicContent calls use(fetchData(id, delay)): every render creates a  *)
(* new promise. The server renderer keeps the thenables of a suspended     *)
(* task and hands them back to use() when it renders the task again; the   *)
(* client renderer unwinds to the Suspense boundary and renders the        *)
(* component from scratch when the promise it threw has resolved.          *)
(***************************************************************************)
Sections == {"User Profile", "Recommendations", "Activity Feed", "Notifications"}

SectionDelay ==
  [s \in Sections |->
     CASE s = "User Profile" -> 1500
       [] s = "Recommendations" -> 1000
       [] s = "Activity Feed" -> 1800
       [] s = "Notifications" -> 2200]

\* Time advances in steps that divide every section delay.
PPRTickMs == SectionDelay["Recommendations"] \div 10

NoThenable == [status |-> "none", value |-> <<>>, remaining |-> 0]

\* `Data for ${id} (loaded after ${delay}ms)`
DataText(id, delay) == <<"Data for ", id, " (loaded after ", delay, "ms)">>

\* fetchData(id, delay): a new promise and its timer
pprFetchData(id, delay) ==
  [status |-> "pending", value |-> DataText(id, delay), remaining |-> delay]

\* use(thenable), first call of a render: the thenable kept from the
\* suspended attempt stands in for the one passed, when there is one.
use(thenableState, thenable) ==
  LET tracked == IF thenableState = NoThenable THEN thenable ELSE thenableState
  IN [suspended |-> tracked.status # "fulfilled", tracked |-> tracked]

FallbackCard == [shows |-> "fallback", text |-> <<>>]
ContentCard(data) == [shows |-> "content", text |-> data]

\* One render of DynamicContent.
DynamicContent(id, delay, thenableState) ==
  LET r == use(thenableState, pprFetchData(id, delay))
  IN [suspended |-> r.suspended,
      promise |-> r.tracked,
      card |-> IF r.suspended THEN FallbackCard ELSE ContentCard(r.tracked.value)]

PPRInit ==
  /\ pprEntry = "none"
  /\ staticShown = FALSE
  /\ sectionView = [s \in Sections |-> FallbackCard]
  /\ sectionPromise = [s \in Sections |-> NoThenable]
  /\ sectionKept = [s \in Sections |-> FALSE]
  /\ sectionRenders = [s \in Sections |-> 0]

OtherThanPPR == UNCHANGED <<indicatorVars, flowVars, vtVars, activityVars, formActionVars, homeVars, otherPagesVars>>

\* The page is opened by a document request (rendered on the server, then
\* hydrated) or by the Link of the home page (rendered on the client).
OpenPPRPage(entry) ==
  /\ pprEntry = "none"
  /\ pprEntry' = entry
  /\ staticShown' = TRUE
  /\ sectionView' = [s \in Sections |-> DynamicContent(s, SectionDelay[s], NoThenable).card]
  /\ sectionPromise' = [s \in Sections |-> DynamicContent(s, SectionDelay[s], NoThenable).promise]
  /\ sectionKept' = [s \in Sections |-> entry = "document"]
  /\ sectionRenders' = [s \in Sections |-> 1]
  /\ OtherThanPPR

PPRTimerDue ==
  \E s \in Sections : sectionPromise[s].status = "pending" /\ sectionPromise[s].remaining = 0

PPRTick ==
  /\ \E s \in Sections : sectionPromise[s].status = "pending"
  /\ ~PPRTimerDue
  /\ sectionPromise' =
       [s \in Sections |->
          IF sectionPromise[s].status = "pending"
            THEN [sectionPromise[s] EXCEPT !.remaining = @ - PPRTickMs]
            ELSE sectionPromise[s]]
  /\ UNCHANGED <<pprEntry, staticShown, sectionView, sectionKept, sectionRenders>>
  /\ OtherThanPPR

\* The timer of the promise a boundary waits for fires: the promise is
\* fulfilled and the renderer renders DynamicContent again (renders beyond
\* MaxSectionRenders are not followed). A render that suspends again leaves
\* what the boundary displays.
SectionPromiseResolves(s) ==
  /\ sectionPromise[s].status = "pending"
  /\ sectionPromise[s].remaining = 0
  /\ LET fulfilled == [sectionPromise[s] EXCEPT !.status = "fulfilled"]
         r == DynamicContent(s, SectionDelay[s],
                             IF sectionKept[s] THEN fulfilled ELSE NoThenable)
     IN IF sectionRenders[s] >= MaxSectionRenders
          THEN /\ sectionPromise' = [sectionPromise EXCEPT ![s] = fulfilled]
               /\ UNCHANGED <<sectionView, sectionRenders>>
          ELSE /\ sectionRenders' = [sectionRenders EXCEPT ![s] = @ + 1]
               /\ sectionPromise' = [sectionPromise EXCEPT ![s] = r.promise]
               /\ sectionView' = [sectionView EXCEPT ![s] = IF r.suspended THEN @ ELSE r.card]
  /\ sectionKept' = [sectionKept EXCEPT ![s] = FALSE]
  /\ UNCHANGED <<pprEntry, staticShown>>
  /\ OtherThanPPR

\* The client hydrates a boundary whose content the server has sent:
\* DynamicContent is rendered on the client, where no thenable is kept.
HydrateSection(s) ==
  /\ pprEntry = "document"
  /\ sectionView[s].shows = "content"
  /\ sectionPromise[s].status = "fulfilled"
  /\ sectionRenders[s] < MaxSectionRenders
  /\ LET r == DynamicContent(s, SectionDelay[s], NoThenable)
     IN /\ sectionPromise' = [sectionPromise EXCEPT ![s] = r.promise]
        /\ sectionView' = [sectionView EXCEPT ![s] = IF r.suspended THEN @ ELSE r.card]
  /\ sectionRenders' = [sectionRenders EXCEPT ![s] = @ + 1]
  /\ UNCHANGED <<pprEntry, staticShown, sectionKept>>
  /\ OtherThanPPR

NextPPR ==
  \/ \E entry \in {"document", "navigation"} : OpenPPRPage(entry)
  \/ PPRTick
  \/ \E s \in Sections : SectionPromiseResolves(s)
  \/ \E s \in Sections : HydrateSection(s)

(***************************************************************************)
(* InteractivePPRDemo (FEATURES.md, lines 843-918): handleSimulateFlow     *)
(* sets the phase and registers three timers; no timer is ever cleared.    *)
(***************************************************************************)
ServingDelay == 1000
ResumeDelay == 2000
ResumeEndDelay == 4000
FlowTickMs == ServingDelay \div 2

FlowInit ==
  /\ phase = "prerender"
  /\ isResuming = FALSE
  /\ flowTimers = <<>>
  /\ flowClicks = 0
  /\ flowEvent = "none"

OtherThanFlow == UNCHANGED <<indicatorVars, pprVars, vtVars, activityVars, formActionVars, homeVars, otherPagesVars>>

FlowTimer(kind, delay) == [kind |-> kind, remaining |-> delay]

handleSimulateFlow ==
  /\ flowClicks < MaxFlowClicks
  /\ flowClicks' = flowClicks + 1
  /\ phase' = "prerender"
  /\ flowTimers' = flowTimers \o << FlowTimer("serving", ServingDelay),
                                    FlowTimer("resume", ResumeDelay),
                                    FlowTimer("resumeEnd", ResumeEndDelay) >>
  /\ flowEvent' = "click"
  /\ UNCHANGED isResuming
  /\ OtherThanFlow

\* Time passes while no timer is due.
FlowTick ==
  /\ flowTimers # <<>>
  /\ \A i \in DOMAIN flowTimers : flowTimers[i].remaining > 0
  /\ flowTimers' = [i \in DOMAIN flowTimers |->
                      [flowTimers[i] EXCEPT !.remaining = @ - FlowTickMs]]
  /\ UNCHANGED <<phase, isResuming, flowClicks, flowEvent>>
  /\ OtherThanFlow

\* The first due timer, 0 when none is due.
DueFlowTimer ==
  IF \E i \in DOMAIN flowTimers : flowTimers[i].remaining = 0
    THEN CHOOSE i \in DOMAIN flowTimers :
           /\ flowTimers[i].remaining = 0
           /\ \A j \in DOMAIN flowTimers : flowTimers[j].remaining = 0 => i <= j
    ELSE 0

\* setTimeout(() => setPhase('serving'), 1000)
ServingTimerFires ==
  /\ DueFlowTimer # 0
  /\ flowTimers[DueFlowTimer].kind = "serving"
  /\ phase' = "serving"
  /\ flowTimers' = RemoveAt(flowTimers, DueFlowTimer)
  /\ flowEvent' = "timer"
  /\ UNCHANGED <<isResuming, flowClicks>>
  /\ OtherThanFlow

\* setTimeout(() => { setPhase('resume'); setIsResuming(true) }, 2000)
ResumeTimerFires ==
  /\ DueFlowTimer # 0
  /\ flowTimers[DueFlowTimer].kind = "resume"
  /\ phase' = "resume"
  /\ isResuming' = TRUE
  /\ flowTimers' = RemoveAt(flowTimers, DueFlowTimer)
  /\ flowEvent' = "timer"
  /\ UNCHANGED flowClicks
  /\ OtherThanFlow

\* setTimeout(() => setIsResuming(false), 4000)
ResumeEndTimerFires ==
  /\ DueFlowTimer # 0
  /\ flowTimers[DueFlowTimer].kind = "resumeEnd"
  /\ isResuming' = FALSE
  /\ flowTimers' = RemoveAt(flowTimers, DueFlowTimer)
  /\ flowEvent' = "timer"
  /\ UNCHANGED <<phase, flowClicks>>
  /\ OtherThanFlow

\* The paragraph of the Dynamic Content card (lines 907-909).
DynamicContentText ==
  IF phase = "resume" /\ isResuming
    THEN "Dynamic content has been loaded!"
    ELSE "This will be loaded during resume phase"

NextPPRFlow ==
  \/ handleSimulateFlow
  \/ FlowTick
  \/ ServingTimerFires
  \/ ResumeTimerFires
  \/ ResumeEndTimerFires

(***************************************************************************)
(* ViewTransitionsDemo (view-transitions/page.tsx): withViewTransition     *)
(* and the four handlers that use it. An updateFn is the closure of one    *)
(* render: it sets one state cell to a value fixed when it was created.    *)
(* document.startViewTransition(callback) calls the callback later, once   *)
(* the browser has captured the old state (also when it skips the          *)
(* transition).                                                            *)
(***************************************************************************)
ITEMS == 1..6

VTInit ==
  /\ vtMounted = FALSE
  /\ vtSupported = FALSE
  /\ selectedItem = 0
  /\ view = "grid"
  /\ sortOrder = "asc"
  /\ vtPending = <<>>
  /\ vtUpdates = <<>>
  /\ vtInvoked = <<>>

OtherThanVT == UNCHANGED <<indicatorVars, pprVars, flowVars, activityVars, formActionVars, homeVars, otherPagesVars>>

\* typeof document !== 'undefined' && 'startViewTransition' in document
supportsViewTransitions == vtSupported

MountViewTransitions(supported) ==
  /\ ~vtMounted
  /\ vtMounted' = TRUE
  /\ vtSupported' = supported
  /\ UNCHANGED <<selectedItem, view, sortOrder, vtPending, vtUpdates, vtInvoked>>
  /\ OtherThanVT

UpdateFn(cell, value) == [cell |-> cell, value |-> value]

\* updateFn(): the setState call of the closure, counted for its call.
InvokeUpdateFn(call, updateFn, invoked) ==
  /\ selectedItem' = IF updateFn.cell = "selectedItem" THEN updateFn.value ELSE selectedItem
  /\ view' = IF updateFn.cell = "view" THEN updateFn.value ELSE view
  /\ sortOrder' = IF updateFn.cell = "sortOrder" THEN updateFn.value ELSE sortOrder
  /\ vtInvoked' = [invoked EXCEPT ![call] = @ + 1]

\* A mutant: the update is also made directly when the API is available.
withViewTransitionAlsoDirect(updateFn) ==
  /\ Len(vtUpdates) < MaxViewTransitionCalls
  /\ vtUpdates' = Append(vtUpdates, updateFn)
  /\ IF supportsViewTransitions
       THEN vtPending' = Append(vtPending, Len(vtUpdates'))
       ELSE UNCHANGED vtPending
  /\ InvokeUpdateFn(Len(vtUpdates'), updateFn, Append(vtInvoked, 0))
  /\ UNCHANGED <<vtMounted, vtSupported>>
  /\ OtherThanVT

withViewTransition(updateFn) ==
  /\ Len(vtUpdates) < MaxViewTransitionCalls
  /\ vtUpdates' = Append(vtUpdates, updateFn)
  /\ IF supportsViewTransitions
       THEN /\ vtPending' = Append(vtPending, Len(vtUpdates'))
            /\ vtInvoked' = Append(vtInvoked, 0)
            /\ UNCHANGED <<selectedItem, view, sortOrder>>
       ELSE /\ InvokeUpdateFn(Len(vtUpdates'), updateFn, Append(vtInvoked, 0))
            /\ UNCHANGED vtPending
  /\ UNCHANGED <<vtMounted, vtSupported>>
  /\ OtherThanVT

\* The browser calls the oldest update callback it holds.
ViewTransitionCallback ==
  /\ vtPending # <<>>
  /\ InvokeUpdateFn(Head(vtPending), vtUpdates[Head(vtPending)], vtInvoked)
  /\ vtPending' = Tail(vtPending)
  /\ UNCHANGED <<vtMounted, vtSupported, vtUpdates>>
  /\ OtherThanVT

\* The cards and the two buttons can be clicked while DetailView, which
\* covers the page, is not rendered.
handleItemClick(item) ==
  /\ vtMounted /\ selectedItem = 0
  /\ withViewTransition(UpdateFn("selectedItem", item))

handleClose ==
  /\ vtMounted /\ selectedItem # 0
  /\ withViewTransition(UpdateFn("selectedItem", 0))

toggleView ==
  /\ vtMounted /\ selectedItem = 0
  /\ withViewTransition(UpdateFn("view", IF view = "grid" THEN "list" ELSE "grid"))

toggleSort ==
  /\ vtMounted /\ selectedItem = 0
  /\ withViewTransition(UpdateFn("sortOrder", IF sortOrder = "asc" THEN "desc" ELSE "asc"))

NextViewTransitions ==
  \/ \E supported \in BOOLEAN : MountViewTransitions(supported)
  \/ \E item \in ITEMS : handleItemClick(item)
  \/ handleClose
  \/ toggleView
  \/ toggleSort
  \/ ViewTransitionCallback

(***************************************************************************)
(* ActivityDemo (server-actions/ServerActionForm.tsx, lines 74-576): the   *)
(* mock Activity component, HeavyComponent (Demo 1) and TabContent         *)
(* (Demo 2). The mock Activity renders its children in both modes inside a *)
(* div whose display is 'none' when hidden.                                *)
(***************************************************************************)
TabNames == <<"home", "profile", "settings">>
TabIds == {TabNames[i] : i \in DOMAIN TabNames}
TabTitle == [t \in TabIds |->
               CASE t = "home" -> "Home" [] t = "profile" -> "Profile" [] OTHER -> "Settings"]
TabDataDelay == 1000
InputTexts == {"", "a", "ab"}
HeavyId == "Demo 1 Component"

\* A mutant: conditional rendering, the children exist only while visible.
ActivityUnmountsHidden(mode) ==
  [display |-> IF mode = "hidden" THEN "none" ELSE "block", rendersChildren |-> mode = "visible"]

\* The mock Activity: the style of its div and whether it renders its children.
Activity(mode) ==
  [display |-> IF mode = "hidden" THEN "none" ELSE "block", rendersChildren |-> TRUE]

\* The effect of Activity: setShouldRender(true) when mode is 'visible'.
ActivityEffect(mode, should) == IF mode = "visible" THEN TRUE ELSE should

\* The mode prop ActivityDemo gives each Activity.
Demo1Mode(visible) == IF visible THEN "visible" ELSE "hidden"
TabMode(tab, active) == IF active = tab THEN "visible" ELSE "hidden"

UnmountedHeavy == [mounted |-> FALSE, count |-> 0, status |-> FALSE]
UnmountedTab == [mounted |-> FALSE, data |-> "null", input |-> "", timer |-> FALSE]

\* HeavyComponent after its first render and effect: setMounted(true).
MountedHeavy == [mounted |-> TRUE, count |-> 0, status |-> TRUE]
\* TabContent after its first render and effect: the 1 s timer is pending.
MountedTab == [mounted |-> TRUE, data |-> "null", input |-> "", timer |-> TRUE]

\* What a render does to a child, given whether its parent renders it.
ReconcileHeavy(prev, rendered) ==
  IF rendered THEN (IF prev.mounted THEN prev ELSE MountedHeavy) ELSE UnmountedHeavy
ReconcileTab(prev, rendered) ==
  IF rendered THEN (IF prev.mounted THEN prev ELSE MountedTab) ELSE UnmountedTab

\* Lines the effects of a child log in a commit: the cleanup when it is
\* unmounted, the effect when it is mounted; nothing while it stays mounted
\* (the dependencies [id] and [name] never change).
HeavyLog(prev, next) ==
  IF prev.mounted /\ ~next.mounted THEN << <<HeavyId, " unmounted">> >>
  ELSE IF ~prev.mounted /\ next.mounted THEN << <<HeavyId, " mounted">> >>
  ELSE <<>>
TabLog(tab, prev, next) ==
  IF prev.mounted /\ ~next.mounted THEN << <<TabTitle[tab], " tab unmounted">> >>
  ELSE IF ~prev.mounted /\ next.mounted
    THEN << <<TabTitle[tab], " tab mounted, loading data...">> >>
  ELSE <<>>

\* One render and commit of ActivityDemo.
ActivityRender(visible, active) ==
  LET nextHeavy == ReconcileHeavy(heavy, Activity(Demo1Mode(visible)).rendersChildren)
      nextTabs == [t \in TabIds |->
                     ReconcileTab(tabs[t], Activity(TabMode(t, active)).rendersChildren)]
  IN /\ heavy' = nextHeavy
     /\ tabs' = nextTabs
     /\ console' = console \o HeavyLog(heavy, nextHeavy)
                     \o TabLog(TabNames[1], tabs[TabNames[1]], nextTabs[TabNames[1]])
                     \o TabLog(TabNames[2], tabs[TabNames[2]], nextTabs[TabNames[2]])
                     \o TabLog(TabNames[3], tabs[TabNames[3]], nextTabs[TabNames[3]])
     /\ shouldRender' =
          [a \in DOMAIN shouldRender |->
             IF a = "demo1" THEN ActivityEffect(Demo1Mode(visible), shouldRender[a])
             ELSE ActivityEffect(TabMode(a, active), shouldRender[a])]

ActivityInit ==
  /\ activityMounted = FALSE
  /\ isVisible = TRUE
  /\ heavy = UnmountedHeavy
  /\ activeTab = "home"
  /\ tabs = [t \in TabIds |-> UnmountedTab]
  /\ shouldRender = [a \in TabIds \cup {"demo1"} |-> a \in {"demo1", "home"}]
  /\ console = <<>>
  /\ tabSwitches = 0

OtherThanActivity == UNCHANGED <<indicatorVars, pprVars, flowVars, vtVars, formActionVars, homeVars, otherPagesVars>>

MountActivityDemo ==
  /\ ~activityMounted
  /\ activityMounted' = TRUE
  /\ ActivityRender(isVisible, activeTab)
  /\ UNCHANGED <<isVisible, activeTab, tabSwitches>>
  /\ OtherThanActivity

\* onClick={() => setIsVisible(!isVisible)}
ToggleVisible ==
  /\ activityMounted
  /\ tabSwitches < MaxTabSwitches
  /\ tabSwitches' = tabSwitches + 1
  /\ isVisible' = ~isVisible
  /\ ActivityRender(isVisible', activeTab)
  /\ UNCHANGED <<activityMounted, activeTab>>
  /\ OtherThanActivity

\* The Increment button, reachable while the card is displayed.
IncrementCount ==
  /\ activityMounted /\ heavy.mounted
  /\ Activity(Demo1Mode(isVisible)).display = "block"
  /\ heavy.count < MaxCount
  /\ heavy' = [heavy EXCEPT !.count = @ + 1]
  /\ UNCHANGED <<activityMounted, isVisible, activeTab, tabs, shouldRender, console,
                 tabSwitches>>
  /\ OtherThanActivity

\* onClick={() => setActiveTab(tab)}
SetActiveTab(tab) ==
  /\ activityMounted
  /\ tabSwitches < MaxTabSwitches
  /\ tabSwitches' = tabSwitches + 1
  /\ activeTab' = tab
  /\ ActivityRender(isVisible, tab)
  /\ UNCHANGED <<activityMounted, isVisible>>
  /\ OtherThanActivity

\* The 1 s timer of a TabContent fires: setData. Timers registered in the
\* same commit fire in the order of the tabs.
TabDataLoaded(tab) ==
  /\ tabs[tab].mounted /\ tabs[tab].timer
  /\ \A i, j \in DOMAIN TabNames :
       (TabNames[j] = tab /\ i < j) => ~tabs[TabNames[i]].timer
  /\ tabs' = [tabs EXCEPT ![tab].timer = FALSE,
                          ![tab].data = <<"Data loaded for ", TabTitle[tab]>>]
  /\ UNCHANGED <<activityMounted, isVisible, heavy, activeTab, shouldRender, console,
                 tabSwitches>>
  /\ OtherThanActivity

\* onChange of the input, rendered once data is there and reachable while
\* the tab is displayed.
TypeInput(tab, text) ==
  /\ tabs[tab].mounted /\ tabs[tab].data # "null"
  /\ Activity(TabMode(tab, activeTab)).display = "block"
  /\ tabs' = [tabs EXCEPT ![tab].input = text]
  /\ UNCHANGED <<activityMounted, isVisible, heavy, activeTab, shouldRender, console,
                 tabSwitches>>
  /\ OtherThanActivity

NextActivity ==
  \/ MountActivityDemo
  \/ ToggleVisible
  \/ IncrementCount
  \/ \E tab \in TabIds : SetActiveTab(tab)
  \/ \E tab \in TabIds : TabDataLoaded(tab)
  \/ \E tab \in TabIds, text \in InputTexts : TypeInput(tab, text)

(***************************************************************************)
(* FormActionsDemo (use-optimistic/page.tsx, lines 199-301): SubmitButton  *)
(* and the action given to useActionState. A text is a sequence of         *)
(* characters; " " stands for white space.                                 *)
(***************************************************************************)
TodoTexts == { <<" ">>, <<"a">>, <<" ", "b">>, <<"a", " ">>, <<" ", " ">> }

TodoActionDelay == 500

RECURSIVE trimStart(_)
trimStart(text) ==
  IF text # <<>> /\ Head(text) = " " THEN trimStart(Tail(text)) ELSE text

RECURSIVE trimEnd(_)
trimEnd(text) ==
  IF text # <<>> /\ text[Len(text)] = " "
    THEN trimEnd(SubSeq(text, 1, Len(text) - 1))
    ELSE text

\* String.prototype.trim
trim(text) == trimEnd(trimStart(text))

\* A mutant: the blank check is missing.
addTodoActionNoBlankCheck(currentTodos, todo) == Append(currentTodos, todo)

\* The action of useActionState, after its 500 ms delay (lines 217-228).
addTodoAction(currentTodos, todo) ==
  IF trim(todo) = <<>> THEN currentTodos ELSE Append(currentTodos, todo)

\* useFormStatus().pending inside the form
FormStatusPending == todoActions # <<>>

\* <button type="submit" disabled={pending}>
SubmitButton(pending) ==
  [disabled |-> pending, label |-> IF pending THEN "Adding..." ELSE "Add Todo"]

FormActionsInit ==
  /\ formTodos = <<>>
  /\ todoActions = <<>>
  /\ todoSubmitted = <<>>

OtherThanFormActions ==
  UNCHANGED <<indicatorVars, pprVars, flowVars, vtVars, activityVars, homeVars, otherPagesVars>>

\* The form is submitted with the text of the input: the input is
\* `required`, and a disabled submit button blocks the submission.
SubmitTodo(text) ==
  /\ ~SubmitButton(FormStatusPending).disabled
  /\ Len(text) > 0
  /\ Len(todoSubmitted) < MaxSubmissions
  /\ todoActions' = Append(todoActions, text)
  /\ todoSubmitted' = Append(todoSubmitted, text)
  /\ UNCHANGED formTodos
  /\ OtherThanFormActions

\* The oldest action returns: its result becomes the state.
TodoActionReturns ==
  /\ todoActions # <<>>
  /\ formTodos' = addTodoAction(formTodos, Head(todoActions))
  /\ todoActions' = Tail(todoActions)
  /\ UNCHANGED todoSubmitted
  /\ OtherThanFormActions

NextFormActions ==
  \/ \E text \in TodoTexts : SubmitTodo(text)
  \/ TodoActionReturns

(***************************************************************************)
(* Home (app/page.tsx): the demos array and the list of links rendered     *)
(* from it; the back link of the demo pages.                               *)
(***************************************************************************)
demos ==
  << [title |-> "use Hook", href |-> "/use-hook"],
     [title |-> "Server Actions", href |-> "/server-actions"],
     [title |-> "useOptimistic Hook", href |-> "/use-optimistic"],
     [title |-> "useFormStatus Hook", href |-> "/use-form-status"],
     [title |-> "Document Metadata", href |-> "/metadata"],
     [title |-> "Ref as Prop", href |-> "/ref-as-prop"],
     [title |-> "Context as Provider", href |-> "/context-provider"],
     [title |-> "Asset Loading", href |-> "/asset-loading"],
     [title |-> "React Compiler", href |-> "/react-compiler"],
     [title |-> "Form Actions", href |-> "/form-actions"],
     [title |-> "Async Transitions", href |-> "/async-transitions"],
     [title |-> "Error Handling", href |-> "/error-handling"],
     [title |-> "View Transitions", href |-> "/view-transitions"],
     [title |-> "<Activity /> Component", href |-> "/activity"],
     [title |-> "Suspense Improvements", href |-> "/suspense-improvements"],
     [title |-> "captureOwnerStack()", href |-> "/capture-owner-stack"],
     [title |-> "useEffectEvent Hook", href |-> "/use-effect-event"],
     [title |-> "Partial Pre-rendering", href |-> "/partial-pre-rendering"] >>

\* A mutant: every card links to the first demo.
HomeLinksToFirst ==
  [i \in DOMAIN demos |-> [key |-> demos[1].href, href |-> demos[1].href, title |-> demos[i].title]]

\* demos.map((demo) => <Link href={demo.href} key={demo.href}> ... {demo.title}
HomeLinks ==
  [i \in DOMAIN demos |-> [key |-> demos[i].href, href |-> demos[i].href, title |-> demos[i].title]]

HomeInit ==
  /\ pathname = "/"
  /\ history = <<"/">>
  /\ lastCard = 0

OtherThanHome ==
  UNCHANGED <<indicatorVars, pprVars, flowVars, vtVars, activityVars, formActionVars,
              otherPagesVars>>

\* A click on the i-th card of the home page: the Link navigates to its href.
ClickDemo(i) ==
  /\ pathname = "/"
  /\ Len(history) < MaxHistory
  /\ pathname' = HomeLinks[i].href
  /\ history' = Append(history, pathname')
  /\ lastCard' = i
  /\ OtherThanHome

\* <Link href="/" className="back-link"> of a demo page
BackToHome ==
  /\ pathname # "/"
  /\ Len(history) < MaxHistory
  /\ pathname' = "/"
  /\ history' = Append(history, pathname')
  /\ UNCHANGED lastCard
  /\ OtherThanHome

NextHome ==
  \/ \E i \in DOMAIN demos : ClickDemo(i)
  \/ BackToHome

(***************************************************************************)
(* UseHookDemo (unnamed/part_000 56-180): fetchData, Post, loadPost.       *)
(* The promise lives in state, so every render of Post is given the        *)
(* promise of the last loadPost; the timers of fetchData all run 1000 ms   *)
(* and fire in the order they were set.                                    *)
(***************************************************************************)
PostIds == {1, 2, 3}

\* The value the promise of fetchData(id) resolves with (lines 63-67).
PostOf(id) == [id |-> id, title |-> <<"Post ", id>>]

\* fetchData(id) (lines 60-70): a new pending promise.
hookFetchData(promises, id) ==
  Append(promises, [id |-> id, status |-> "pending", stale |-> FALSE])

\* Post (lines 72-83) under the Suspense of line 135: use() suspends on a
\* pending promise, and the boundary shows 'Loading post...'.
Post(promise) ==
  IF promise.status = "fulfilled"
    THEN [shows |-> "post", post |-> PostOf(promise.id)]
    ELSE [shows |-> "fallback", post |-> PostOf(0)]

PostView == Post(hookPromises[postPromise])

HookInit ==
  /\ postId = 1
  /\ hookPromises = hookFetchData(<<>>, 1)
  /\ postPromise = 1

OtherThanHook ==
  UNCHANGED <<indicatorVars, pprVars, flowVars, vtVars, activityVars, formActionVars,
              homeVars, earlierVars, searchVars>>

\* A bug: the new promise is not stored.
loadPostKeepsPromise(id) ==
  /\ id # postId
  /\ Len(hookPromises) <= MaxPostLoads
  /\ postId' = id
  /\ hookPromises' = hookFetchData(hookPromises, id)
  /\ postPromise' = postPromise
  /\ OtherThanHook

\* loadPost (lines 90-93); the button of the selected post is disabled
\* (lines 125-133).
loadPost(id) ==
  /\ id # postId
  /\ Len(hookPromises) <= MaxPostLoads
  /\ postId' = id
  /\ hookPromises' = hookFetchData(hookPromises, id)
  /\ postPromise' = Len(hookPromises')
  /\ OtherThanHook

\* The timer of the oldest pending promise fires (lines 62-69). stale records
\* that the promise was no longer the one in state when it was fulfilled.
PostPromiseResolves ==
  \E p \in DOMAIN hookPromises :
    /\ hookPromises[p].status = "pending"
    /\ \A q \in DOMAIN hookPromises : q < p => hookPromises[q].status = "fulfilled"
    /\ hookPromises' = [hookPromises EXCEPT ![p].status = "fulfilled",
                                             ![p].stale = (p # postPromise)]
    /\ UNCHANGED <<postId, postPromise>>
    /\ OtherThanHook

NextUseHook ==
  \/ \E id \in PostIds : loadPost(id)
  \/ PostPromiseResolves

(***************************************************************************)
(* SearchResults (unnamed/part_000 188-256). Every change of the search    *)
(* box starts an async transition that awaits fetchData and then calls     *)
(* setResults. The async actions of the page form one scope: isPending is  *)
(* true from the first startTransition until the last action has finished. *)
(***************************************************************************)
Queries == {"", "r", "re"}

SearchDelay == 1000

\* Time advances in steps that divide the delay.
SearchTickMs == SearchDelay \div 4

\* The five strings fetchData resolves with (lines 191-197).
ResultsFor(query) == [i \in 1..5 |-> <<"Result ", i, " for \"", query, "\"">>]

\* A bug: the empty query is answered sooner than the others.
SearchFetchDelayShortForEmpty(query) ==
  IF query = "" THEN SearchDelay \div 4 ELSE SearchDelay

\* The delay of the timer of fetchData(query) (line 198).
SearchFetchDelay(query) == SearchDelay

SearchInit ==
  /\ searchInput = ""
  /\ searches = <<>>
  /\ results = <<>>
  /\ searchIsPending = FALSE
  /\ keystrokes = 0

OtherThanSearch ==
  UNCHANGED <<indicatorVars, pprVars, flowVars, vtVars, activityVars, formActionVars,
              homeVars, earlierVars, hookVars>>

\* onChange of the input (line 221) calls search (lines 207-212) up to its
\* await: startTransition sets isPending, fetchData sets its timer.
search(searchQuery) ==
  /\ searchQuery # searchInput
  /\ keystrokes < MaxKeystrokes
  /\ keystrokes' = keystrokes + 1
  /\ searchInput' = searchQuery
  /\ searches' = Append(searches, [query |-> searchQuery,
                                    remaining |-> SearchFetchDelay(searchQuery)])
  /\ searchIsPending' = TRUE
  /\ UNCHANGED results
  /\ OtherThanSearch

\* Time passes while no timer is due.
SearchTick ==
  /\ searches # <<>>
  /\ \A i \in DOMAIN searches : searches[i].remaining > 0
  /\ searches' = [i \in DOMAIN searches |->
                    [searches[i] EXCEPT !.remaining = searches[i].remaining - SearchTickMs]]
  /\ UNCHANGED <<searchInput, results, searchIsPending, keystrokes>>
  /\ OtherThanSearch

\* The first due timer, 0 when none is due: timers with the same deadline
\* fire in the order they were set.
DueSearch ==
  IF \E i \in DOMAIN searches : searches[i].remaining = 0
    THEN CHOOSE i \in DOMAIN searches :
           /\ searches[i].remaining = 0
           /\ \A j \in DOMAIN searches : searches[j].remaining = 0 => i <= j
    ELSE 0

\* The timer fires, the promise resolves and search continues after its
\* await (line 210): setResults(data). The action has finished; when it was
\* the last one of the scope isPending turns false.
SearchResolves ==
  /\ DueSearch # 0
  /\ results' = ResultsFor(searches[DueSearch].query)
  /\ searches' = RemoveAt(searches, DueSearch)
  /\ searchIsPending' = (searches' # <<>>)
  /\ UNCHANGED <<searchInput, keystrokes>>
  /\ OtherThanSearch

NextSearch ==
  \/ \E q \in Queries : search(q)
  \/ SearchTick
  \/ SearchResolves

Init ==
  /\ VisitInit /\ CompareInit /\ NotifyInit /\ FormInit /\ OptimisticInit
  /\ ErrorInit /\ SuspenseInit
  /\ Demo4Init /\ ProgressInit
  /\ PPRInit /\ FlowInit /\ VTInit /\ ActivityInit /\ FormActionsInit
  /\ HomeInit
  /\ HookInit /\ SearchInit

SpecVisit == Init /\ [][NextVisit]_vars

SpecChat == Init /\ [][NextChat]_vars

SpecForm == Init /\ [][NextForm]_vars

SpecOptimistic == Init /\ [][NextOptimistic]_vars

SpecError == Init /\ [][NextError]_vars

SpecSuspense == Init /\ [][NextSuspense]_vars

SpecActivityIndicators == Init /\ [][NextActivityIndicators]_vars

\* The browser fires every interval that is alive, every 300 ms.
FairSpecProgressBar ==
  /\ Init
  /\ [][NextProgressBar]_vars
  /\ WF_vars(ProgressIntervalTick)
  /\ WF_vars(LeakedIntervalTick)

SpecPPR == Init /\ [][NextPPR]_vars

SpecPPRFlow == Init /\ [][NextPPRFlow]_vars

SpecViewTransitions == Init /\ [][NextViewTransitions]_vars

SpecActivity == Init /\ [][NextActivity]_vars

SpecFormActions == Init /\ [][NextFormActions]_vars

SpecHome == Init /\ [][NextHome]_vars

SpecUseHook == Init /\ [][NextUseHook]_vars

SpecSearch == Init /\ [][NextSearch]_vars

(***************************************************************************)
(* C1: useEffectEvent returns a function whose identity is the same on     *)
(* every render (it is the function created by the first render), and      *)
(* every call made from an effect runs the callback of the most recent     *)
(* render.                                                                 *)
(***************************************************************************)
EffectEventStableAndLatest ==
  visitMounted =>
    /\ onVisit.fn = 1
    /\ onVisit.ref.render = visitRenders
    /\ visitInvoked.callback = visitInvoked.render

\* A call through the Effect Event made after the cart changed: the function
\* is still the one of render 1, the callback that ran is a later one.
EffectEventCalledAfterRerender ==
  /\ onVisit.fn = 1
  /\ visitInvoked.render > 2
  /\ Len(logs) >= 2
  /\ logs[Len(logs)].numberOfItems # 2

(***************************************************************************)
(* C2: one log entry at mount and one per change of url, none for a cart   *)
(* change or a click on the current page; each entry carries the number    *)
(* of items in the cart when the url changed.                              *)
(***************************************************************************)
VisitLogTracksUrl ==
  [][ /\ (~visitMounted /\ visitMounted') =>
            logs' = <<[url |-> "/home", numberOfItems |-> 2]>>
      /\ (visitMounted /\ url' # url) =>
            /\ items' = items
            /\ logs' = Append(logs, [url |-> url', numberOfItems |-> Len(items)])
      /\ (visitMounted /\ url' = url) => logs' = logs ]_vars

\* Two visits logged after mount, with the cart changed between them.
VisitLoggedChangedCart ==
  /\ Len(logs) = 3
  /\ logs[2].numberOfItems # logs[3].numberOfItems
  /\ logs[3].numberOfItems = Len(items)
  /\ visitRenders > 5

(***************************************************************************)
(* C3: while BeforeAfterComparison stays mounted, the log of the version   *)
(* with useEffectEvent holds exactly one Connected entry and no            *)
(* Disconnected entry, and the log of the version without it receives one  *)
(* Disconnected entry followed by one Connected entry with the new theme   *)
(* for each change of theme (and nothing otherwise).                       *)
(***************************************************************************)
ReconnectsOnlyWithoutEffectEvent ==
  [][ /\ compareMounted' =>
            /\ Len(connectionLogs') = 1
            /\ connectionLogs'[1][1] = "Connected"
      /\ (compareMounted /\ theme' # theme) =>
            badConnectionLogs' =
              badConnectionLogs \o << <<"Disconnected">>, <<"Connected", theme'>> >>
      /\ (compareMounted /\ theme' = theme) =>
            badConnectionLogs' = badConnectionLogs ]_vars

\* The theme went to dark and back to light.
ThemeChangedTwice ==
  /\ Len(badConnectionLogs) = 5
  /\ badConnectionLogs[3] = <<"Connected", "dark">>
  /\ badConnectionLogs[5] = <<"Connected", "light">>
  /\ connectionLogs = << <<"Connected", "light">> >>

(***************************************************************************)
(* C4: each click on Receive New Message appends exactly two entries, the  *)
(* message entry with the next message number and then the sound entry of  *)
(* the soundEnabled flag and volume of that click; a change of the         *)
(* settings appends nothing, and nothing is logged while messageCount = 0. *)
(***************************************************************************)
NotificationsFollowMessages ==
  [][ /\ (notifyMounted /\ messageCount' # messageCount) =>
            /\ messageCount' = messageCount + 1
            /\ notifications' = notifications \o
                 << <<"message", messageCount + 1>>,
                    IF soundEnabled THEN <<"sound", volume>> ELSE <<"silent">> >>
      /\ messageCount' = messageCount => notifications' = notifications
      /\ messageCount' = 0 => notifications' = <<>> ]_vars

\* Two messages received, the sound settings changed between them.
MessagesWithChangedSettings ==
  /\ Len(notifications) = 4
  /\ notifications[1] = <<"message", 1>>
  /\ notifications[3] = <<"message", 2>>
  /\ notifications[2] = <<"sound", 50>>
  /\ notifications[4] # notifications[2]

\* The field is absent from, or empty in, the form data of the last call.
FieldMissing(field) ==
  \/ field \notin DOMAIN actionArgs.formData
  \/ Len(actionArgs.formData[field]) = 0

(***************************************************************************)
(* C5: submitFormAction returns the fill-in-all-fields error when name,    *)
(* email or message is missing or empty; otherwise the invalid-email error *)
(* when email holds no '@'; otherwise success with a message naming the    *)
(* name and the email. No result has an error together with success, and   *)
(* the result is decided by the form data alone, whatever prevState was.   *)
(***************************************************************************)
FormResultFollowsFields ==
  (~formPending /\ formState # NullState) =>
    /\ (FieldMissing("name") \/ FieldMissing("email") \/ FieldMissing("message")) =>
          formState = [error |-> "Please fill in all fields", success |-> FALSE]
    /\ (~FieldMissing("name") /\ ~FieldMissing("email") /\ ~FieldMissing("message")) =>
          IF "@" \in Range(actionArgs.formData["email"])
            THEN /\ DOMAIN formState = {"success", "message"}
                 /\ formState.success = TRUE
                 /\ formState.message[2] = actionArgs.formData["name"]
                 /\ formState.message[4] = actionArgs.formData["email"]
            ELSE formState = [error |-> "Please enter a valid email address", success |-> FALSE]
    /\ ~("error" \in DOMAIN formState /\ formState.success)

\* A submission with name missing and an email without '@', made when the
\* previous state was a success: the missing-field error is returned.
MissingFieldBeatsBadEmail ==
  /\ ~formPending
  /\ "success" \in DOMAIN actionArgs.prevState
  /\ actionArgs.prevState.success
  /\ "name" \notin DOMAIN actionArgs.formData
  /\ "email" \in DOMAIN actionArgs.formData
  /\ actionArgs.formData["email"] = <<"a">>
  /\ formState = [error |-> "Please fill in all fields", success |-> FALSE]

\* The optimistic update dispatched by the click of the k-th server update in flight.
UpdateInFlight(k) == optimisticQueue[Len(optimisticQueue) - Len(serverUpdates) + k]

\* No later update in flight is for the same todo as the k-th.
NotClickedAgain(k) ==
  \A j \in DOMAIN serverUpdates : j > k => serverUpdates[j] # serverUpdates[k]

(***************************************************************************)
(* C6 as stated: the displayed flag of a clicked todo keeps the value the  *)
(* click gave it during the whole server update of that click.             *)
(***************************************************************************)
DisplayKeepsValueOfEveryUpdate ==
  \A k \in DOMAIN serverUpdates :
    optimisticTodos[UpdateInFlight(k).id] = UpdateInFlight(k).completed

(***************************************************************************)
(* C6, amended: a click on a todo makes its displayed flag the negation of *)
(* its committed flag at once; the display keeps that value during the     *)
(* server update of that click unless the same todo is clicked again       *)
(* before it completes; the committed list changes only when a server      *)
(* update completes.                                                       *)
(***************************************************************************)
DisplayKeepsValueUntilClickedAgain ==
  [][ /\ Len(serverUpdates') > Len(serverUpdates) =>
            LET id == serverUpdates'[Len(serverUpdates')]
            IN /\ optimisticTodos'[id] = ~todos[id]
               /\ todos' = todos
      /\ todos' # todos => Len(serverUpdates') < Len(serverUpdates)
      /\ \A k \in DOMAIN serverUpdates' :
            NotClickedAgain(k)' =>
              optimisticTodos'[UpdateInFlight(k)'.id] = UpdateInFlight(k)'.completed ]_vars

\* Two todos being updated, while an earlier update is already committed.
TwoUpdatesInFlight ==
  /\ Len(serverUpdates) = 2
  /\ serverUpdates[1] # serverUpdates[2]
  /\ optimisticTodos # todos
  /\ \E id \in TodoIds : todos[id]

(***************************************************************************)
(* C7: whenever isPending is false the displayed list equals the committed *)
(* list.                                                                   *)
(***************************************************************************)
OptimisticRevertsWhenSettled == ~isPending => optimisticTodos = todos

\* An update has completed and nothing is pending: the flag is committed.
SettledAfterUpdate ==
  /\ ~isPending
  /\ \E id \in TodoIds : todos[id]
  /\ optimisticTodos = todos

(***************************************************************************)
(* C8: once a child has thrown during rendering the boundary stores that   *)
(* error, and every later render shows the fallback of that same error     *)
(* without rendering the children until reset is called; a change of       *)
(* shouldError alone does not bring the children back.                     *)
(***************************************************************************)
FallbackStaysUntilReset ==
  [][ /\ errorsThrown' > errorsThrown =>
            /\ boundaryError' = errorsThrown'
            /\ boundaryView' = FallbackView(errorsThrown')
      /\ (boundaryError # 0 /\ errorPageEvent' # "reset") =>
            /\ boundaryError' = boundaryError
            /\ boundaryView' = FallbackView(boundaryError)
            /\ errorsThrown' = errorsThrown
      /\ boundaryError' = 0 => boundaryView' = ChildrenView ]_vars

\* Fix Component was clicked after the error: the fallback is still shown.
FallbackShownWithPropFixed ==
  /\ boundaryError # 0
  /\ ~triggerError
  /\ errorPageEvent = "toggle"
  /\ boundaryView = FallbackView(boundaryError)

(***************************************************************************)
(* C9: a fetch started while Simulate API error is checked ends with the   *)
(* error 'Failed to fetch data from server' stored and data not set by it, *)
(* a fetch started while it is unchecked ends with 'Data loaded            *)
(* successfully!' stored: the outcome is the one the button label          *)
(* announced at the click, also when the checkbox changes during the delay.*)
(***************************************************************************)
FetchOutcomeIsTheAnnouncedOne ==
  [][ Len(fetches') < Len(fetches) =>
        IF Head(fetches).label = "(Will Fail)"
          THEN /\ asyncError' = "Failed to fetch data from server"
               /\ asyncData' = asyncData
          ELSE /\ asyncData' = "Data loaded successfully!"
               /\ asyncError' = asyncError ]_vars

\* A fetch has just failed although the checkbox is unchecked by now.
FailedAfterUnchecking ==
  /\ errorPageEvent = "settle"
  /\ fetches = <<>>
  /\ asyncError = "Failed to fetch data from server"
  /\ asyncData = "null"
  /\ ~triggerAsyncError

\* A timer of that kind registered by the current run is still pending.
PendingNow(kind) ==
  \E i \in DOMAIN timers : timers[i].kind = kind /\ timers[i].run = resetKey

FetchPendingNow == PendingNow("user") \/ PendingNow("posts") \/ PendingNow("comments")

PanelRank == CASE Panel18 = "blank" -> 1 [] Panel18 = "spinner" -> 2 [] OTHER -> 3

DisplayedPromiseIs(status) == dataPromise # 0 /\ dataPromises[dataPromise] = status

(***************************************************************************)
(* C11: after Load Data (Suspense) the fallback is shown while the promise *)
(* is pending; once the promise is fulfilled and React has rendered        *)
(* DataList again, the list of the five items is shown; after Reset        *)
(* nothing is shown and the load button is enabled (dataPromise is null).  *)
(***************************************************************************)
SuspenseListAppearsAfterLoad ==
  /\ DisplayedPromiseIs("pending") => demo4View = "fallback"
  /\ (DisplayedPromiseIs("fulfilled") /\ dataListAttempts > 0) =>
        /\ demo4View = "list"
        /\ dataListData = "items"
  /\ dataPromise = 0 => demo4View = "none"

(***************************************************************************)
(* C12: the StaticContent sections are displayed from the first render,    *)
(* and every DynamicContent section shows 'Data for <id> (loaded after     *)
(* <delay>ms)' in place of its fallback once its delay has elapsed and the *)
(* section has been rendered again, whatever the other sections do.        *)
(***************************************************************************)
DynamicSectionsLoad ==
  pprEntry # "none" =>
    /\ staticShown
    /\ \A s \in Sections :
         sectionRenders[s] >= 2 =>
           sectionView[s] = ContentCard(DataText(s, SectionDelay[s]))

PhaseRank == CASE phase = "prerender" -> 1 [] phase = "serving" -> 2 [] OTHER -> 3

(***************************************************************************)
(* C13: for every sequence of clicks on Simulate PPR Flow, the phase       *)
(* changes only from prerender to serving and from serving to resume,      *)
(* except at a click, which sets it to prerender; the text 'Dynamic        *)
(* content has been loaded!' is displayed only while phase is 'resume'.    *)
(***************************************************************************)
PhaseAdvancesInOrder ==
  [][ /\ phase' # phase =>
            \/ flowEvent' = "click" /\ phase' = "prerender"
            \/ flowEvent' = "timer" /\ PhaseRank' = PhaseRank + 1
      /\ DynamicContentText' = "Dynamic content has been loaded!" => phase' = "resume" ]_vars

\* The state cell an updateFn sets, after the step.
CellAfter(cell) ==
  CASE cell = "selectedItem" -> selectedItem'
    [] cell = "view" -> view'
    [] OTHER -> sortOrder'

(***************************************************************************)
(* C14: every call of withViewTransition(updateFn) invokes updateFn        *)
(* exactly once: at once when the View Transitions API is missing, in the  *)
(* startViewTransition callback when it is available (never before, never  *)
(* twice); in both cases the cell updateFn sets holds updateFn's value     *)
(* right after the invocation.                                             *)
(***************************************************************************)
UpdateFnInvokedExactlyOnce ==
  [][ /\ \A k \in DOMAIN vtInvoked' :
            vtInvoked'[k] = IF \E i \in DOMAIN vtPending' : vtPending'[i] = k THEN 0 ELSE 1
      /\ ~vtSupported' => vtPending' = <<>>
      /\ \A k \in DOMAIN vtInvoked' :
            (k \notin DOMAIN vtInvoked \/ vtInvoked'[k] # vtInvoked[k]) =>
               (vtInvoked'[k] = 1 => CellAfter(vtUpdates'[k].cell) = vtUpdates'[k].value) ]_vars

\* With the API available, two updates were called back and took effect.
TransitionCallbacksRan ==
  /\ vtSupported
  /\ vtInvoked = <<1, 1>>
  /\ vtPending = <<>>
  /\ view = "list"
  /\ sortOrder = "desc"

(***************************************************************************)
(* C15: for every sequence of tab switches exactly one of the three tab    *)
(* Activities is displayed, every TabContent stays mounted, and a switch   *)
(* of tab leaves the input text and the loaded data of every tab as they   *)
(* were.                                                                   *)
(***************************************************************************)
TabsKeepTheirState ==
  [][ /\ activityMounted' =>
            /\ Cardinality({t \in TabIds : TabMode(t, activeTab') = "visible"}) = 1
            /\ \A t \in TabIds :
                 /\ tabs'[t].mounted
                 /\ Activity(TabMode(t, activeTab')).display = "block" <=> t = activeTab'
      /\ (activityMounted /\ activeTab' # activeTab) =>
            \A t \in TabIds : /\ tabs'[t].input = tabs[t].input
                              /\ tabs'[t].data = tabs[t].data ]_vars

\* Text was typed in the Profile tab, then the tab was left and shown again.
BackOnTabWithInput ==
  /\ activeTab = "profile"
  /\ tabs["profile"].input = "ab"
  /\ tabs["profile"].data = <<"Data loaded for ", "Profile">>
  /\ tabSwitches = 3

(***************************************************************************)
(* C16: switching the Activity of Demo 1 to 'hidden' runs the cleanup of   *)
(* HeavyComponent's effect (the console gets 'Demo 1 Component             *)
(* unmounted'), switching it back to 'visible' runs the effect again       *)
(* ('Demo 1 Component mounted'), and count is the same before and after.   *)
(***************************************************************************)
HiddenActivityUnmountsEffects ==
  [][ /\ (activityMounted /\ isVisible /\ ~isVisible') =>
            /\ console' = Append(console, <<HeavyId, " unmounted">>)
            /\ heavy'.count = heavy.count
      /\ (activityMounted /\ ~isVisible /\ isVisible') =>
            /\ console' = Append(console, <<HeavyId, " mounted">>)
            /\ heavy'.count = heavy.count ]_vars

\* The text has a character that is not white space.
NotBlank(text) == \E i \in DOMAIN text : text[i] # " "

\* The submissions whose action has returned.
ReturnedSubmissions == SubSeq(todoSubmitted, 1, Len(todoSubmitted) - Len(todoActions))

(***************************************************************************)
(* C17: the todos list is the sequence of the submitted texts that are not *)
(* blank, in submission order (as far as their actions have returned): a   *)
(* blank submission adds nothing, no entry is removed or reordered; the    *)
(* submit button is disabled while a submission is pending, so at most one *)
(* is pending.                                                             *)
(***************************************************************************)
TodosAreTheNonBlankSubmissions ==
  [][ /\ formTodos' = SelectSeq(ReturnedSubmissions', NotBlank)
      /\ Len(formTodos') >= Len(formTodos)
      /\ SubSeq(formTodos', 1, Len(formTodos)) = formTodos
      /\ Len(todoActions') <= 1
      /\ todoActions' # <<>> => SubmitButton(FormStatusPending').disabled ]_vars

\* A blank text was submitted between two texts that were kept.
BlankBetweenTwoTodos ==
  /\ todoSubmitted = << <<"a", " ">>, <<" ", " ">>, <<" ", "b">> >>
  /\ todoActions = <<>>
  /\ formTodos = << <<"a", " ">>, <<" ", "b">> >>

(***************************************************************************)
(* C18: the links of the home page have pairwise distinct hrefs (and       *)
(* keys), the link of every entry of demos has the href of that entry, and *)
(* a click on a card displays the page of that entry and of no other.      *)
(***************************************************************************)
EveryDemoHasItsOwnPath ==
  /\ \A i, j \in DOMAIN HomeLinks :
       i # j => /\ HomeLinks[i].href # HomeLinks[j].href
                /\ HomeLinks[i].key # HomeLinks[j].key
  /\ \A i \in DOMAIN demos :
       /\ HomeLinks[i].href = demos[i].href
       /\ HomeLinks[i].title = demos[i].title
  /\ pathname # "/" =>
       /\ pathname = demos[lastCard].href
       /\ \A j \in DOMAIN demos : demos[j].href = pathname => j = lastCard

\* The last card was clicked after a visit to another demo.
SecondDemoOpened ==
  /\ pathname = "/partial-pre-rendering"
  /\ lastCard = Len(demos)
  /\ Len(history) = 4
  /\ history[2] = "/form-actions"

(***************************************************************************)
(* C19: a click on Reset and Try Again while the fallback is shown leaves  *)
(* the boundary without error and triggerError false, and the render that  *)
(* follows shows the child: BuggyComponent does not throw again, whether   *)
(* triggerError was true or false at the click.                            *)
(***************************************************************************)
ResetRendersTheChild ==
  [][ (boundaryView.shows = "fallback" /\ errorPageEvent' = "reset") =>
        /\ boundaryError' = 0
        /\ ~triggerError'
        /\ boundaryView' = ChildrenView
        /\ errorsThrown' = errorsThrown ]_vars

\* The child is shown after the second error was reset.
ChildShownAfterSecondReset ==
  /\ errorPageEvent = "reset"
  /\ errorsThrown = 2
  /\ boundaryError = 0
  /\ boundaryView = ChildrenView
  /\ ~triggerError

\* The interval timers that are alive, whichever component instance set them.
ActiveIntervals == intervals + Len(leakedIntervals)

\* A step that starts a run: simulateProgress, or the mount of a new page.
StartsARun == (activityIsLoading' /\ ~activityIsLoading) \/ ~activityPageMounted'

(* C21: in the progress-bar demo progress is always a multiple of 10 from 0
   to 100, it never decreases during a run, and at most one interval timer
   is active at any time. *)
ProgressBarInvariants ==
  /\ [](progress \in {10 * k : k \in 0..10} /\ ActiveIntervals <= 1)
  /\ [][progress' < progress => StartsARun]_vars

\* What holds of the progress bar while leaving the timers of unmounted
\* instances out of the count.
ProgressBarOfMountedInstance ==
  /\ [](progress \in {10 * k : k \in 0..10} /\ intervals <= 1)
  /\ [][progress' < progress => StartsARun]_vars

(* C22: every run started by simulateProgress terminates: progress reaches
   100, the interval is then cleared and isLoading becomes false, not
   before progress has reached 100; after that no tick changes progress. *)
EveryRunTerminates ==
  /\ (ActiveIntervals > 0) ~> (ActiveIntervals = 0)
  /\ [][(activityIsLoading /\ ~activityIsLoading' /\ activityPageMounted')
          => (progress = 100 /\ intervals' = 0)]_vars
  /\ [][(~activityIsLoading /\ ~activityIsLoading' /\ activityPageMounted')
          => progress' = progress]_vars

\* The runs that terminate: those whose page stays mounted until the end.
RunsOfMountedInstanceTerminate ==
  /\ (intervals > 0) ~> (intervals = 0)
  /\ [][(activityIsLoading /\ ~activityIsLoading' /\ activityPageMounted')
          => (progress = 100 /\ intervals' = 0)]_vars
  /\ [][(~activityIsLoading /\ ~activityIsLoading' /\ activityPageMounted')
          => progress' = progress]_vars

LoadedEventOf(kind) ==
  CASE kind = "user" -> "User loaded"
    [] kind = "posts" -> "Posts loaded"
    [] kind = "comments" -> "Comments loaded"

(* C23: when Reset Demo is clicked while fetches or timers of the previous
   run are outstanding, their completions do not affect the new run: the
   timeline holds a loaded event only of a fetch started after the reset
   that has completed, and React18Simulation shows its content only after
   the three fetches started after the reset have completed. *)
StaleCompletionsDoNotAffectTheNewRun ==
  sim18Mounted =>
    \A kind \in {"user", "posts", "comments"} :
      /\ (\E e \in DOMAIN events18 : events18[e] = LoadedEventOf(kind))
           => ~PendingNow(kind)
      /\ Panel18 = "content" => ~PendingNow(kind)

(* C24: in UseOptimisticDemo, for every sequence of clicks, also several
   clicks on one todo while an update of it is pending, the flags displayed
   while updates are pending are the flags of the committed list once all
   pending updates have completed. *)
DisplayedFlagsAreTheCommittedOnes ==
  [][ (serverUpdates # <<>> /\ serverUpdates' = <<>>) => todos' = optimisticTodos ]_vars

(* C25: in AsyncBuggyComponent, after any sequence of fetches, the error
   message and the success message are never displayed at the same time. *)
ErrorAndSuccessNeverTogether == ~(asyncError # "null" /\ asyncData # "null")

(* C26: in UseHookDemo, whenever a post is displayed instead of the fallback
   its id is the most recently selected postId, also when Load Post was
   clicked while an earlier post was still loading. *)
DisplayedPostIsTheSelectedOne ==
  PostView.shows = "post" => PostView.post.id = postId

\* The post selected last is displayed, and the response of a selection
\* made before it arrived while that later selection was loading.
LaterPostShownAfterStaleResponse ==
  /\ PostView.shows = "post"
  /\ \E p \in DOMAIN hookPromises :
       /\ p < postPromise
       /\ hookPromises[p].stale
       /\ hookPromises[p].id # postId

(* C27: in SearchResults, once no search is outstanding the displayed
   results are those of the query typed last, the searches complete in the
   order they were typed, and isPending is true exactly while a search is
   outstanding. *)
LatestQueryWins ==
  /\ [](/\ searchIsPending <=> searches # <<>>
        /\ searches = <<>> =>
             results = IF keystrokes = 0 THEN <<>> ELSE ResultsFor(searchInput))
  /\ [][Len(searches') < Len(searches) =>
          /\ searches' = Tail(searches)
          /\ results' = ResultsFor(Head(searches).query)]_vars

\* Results of an earlier query are displayed while two later searches are
\* outstanding at the same time.
TwoSearchesOutstanding ==
  /\ Len(searches) = 2
  /\ searches[2].query = searchInput
  /\ results # <<>>
  /\ searchIsPending

\* The clicks made so far on the toggle that sets the given cell.
ToggleClicks(cell) == Cardinality({i \in DOMAIN vtUpdates : vtUpdates[i].cell = cell})

(* C28: in ViewTransitionsDemo every click on the view toggle flips view and
   every click on the sort toggle flips sortOrder: once the updates of n
   clicks on a toggle have been applied the value has changed n times, also
   when a click arrives before the update of the previous click has been
   applied. *)
EveryToggleClickFlips ==
  vtPending = <<>> =>
    /\ view = (IF ToggleClicks("view") % 2 = 0 THEN "grid" ELSE "list")
    /\ sortOrder = (IF ToggleClicks("sortOrder") % 2 = 0 THEN "asc" ELSE "desc")

====
